---- MODULE Spec2Model ----
(***************************************************************************)
(* Model of the eda package (chop-dbhi/eda): the subscription controller   *)
(* that stanConn.Subscribe installs on a NATS Streaming channel, the       *)
(* connection life cycle around it, and the streaming backend as far as    *)
(* the controller relies on it (ordered log, manual acknowledgement,       *)
(* AckWait redelivery, MaxInflight, durable queue groups).                 *)
(*                                                                         *)
(* The repository holds two generations of stanConn.  ver = "log" is the   *)
(* one of src/stan.go (errors are logged), ver = "errch" the one of        *)
(* src/encode.go:151-503 (errors go to c.errch and cancel c.ctx; Wait and  *)
(* handleInterrupt exist).  Init picks either.                             *)
(*                                                                         *)
(* One connection (client id ClientId) and one stream are modelled.  A     *)
(* consumer name has at most one live subscription at a time, and Subscribe*)
(* is called for a name again only once the dispatch task of its earlier   *)
(* subscription is idle.                                                   *)
(*                                                                         *)
(* An event is carried through Publish, proto.Marshal, the stream,         *)
(* proto.Unmarshal and msgHandler with its id, type, cause and client.     *)
(* The Message envelope of src/types.go and its Marshal are modelled next  *)
(* to the connection; they share the process's nuid generator.             *)
(***************************************************************************)
EXTENDS Integers, Sequences, FiniteSets, TLC

\* Bounds of the model.
MaxEvents == 5   \* publications, Subscribe calls, AckWait expiries and signals in a run

VARIABLES
  ver,       \* generation of stanConn: "log" (src/stan.go) or "errch" (src/encode.go)
  log,       \* the stream: sequence of [wf |-> wire bytes are a pb.Event]
  grp,       \* backend: offset state of each queue group, keyed <<name, durable>>
  sub,       \* per consumer name: the subscription and its dispatch task
  connOpen,  \* c.stan / c.nats not closed yet
  crashed,   \* a handler panic was re-raised out of msgHandler
  ctxDone,   \* c.ctx is cancelled (ver = "errch")
  errch,     \* c.errch, a buffered channel (ver = "errch")
  hiDone,    \* the handleInterrupt goroutine has sent its nil (ver = "errch")
  waitRes,   \* what Wait returned, "none" while it has not (ver = "errch")
  nev,       \* Subscribe calls, AckWait expiries and signals so far
  nuid,      \* how many IDs the process's nuid generator has handed out
  ret,       \* per message of the stream: the Publish call it is from
  subs,      \* c.subs, the subscriptions Subscribe has tracked (ver = "errch")
  ops,       \* what stanConn.Close has called, in the order of the calls
  env,       \* a Message envelope of the application (src/types.go)
  out,       \* what the last Marshal of env returned
  dat,       \* a Data of the application (src/types.go)
  tgt,       \* the target of the last Decode of dat and the error it returned
  reg,       \* the codec registry (src/codec/codec.go) and the calls running on it
  rcv,       \* the Message a receiver unmarshals the bytes of env into
  calls,     \* the Subscribe and the Close call running on the connection
  rep        \* a Reply, what its Marshal returned and the Reply a receiver got

vars == <<ver, log, grp, sub, connOpen, crashed, ctxDone, errch, hiDone,
          waitRes, nev, nuid, ret, subs, ops, env, out, dat, tgt, reg,
          rcv, calls, rep>>

ClientId == "a"
Names == {"a", "b"}
NameArgs == {"", "b"}
Keys == Names \X BOOLEAN
MsgSeqs == 1..MaxEvents
StartPositions == {"new", "first"}

NoGrp == [first |-> 0, next |-> 0, pend |-> {}]

\* No live subscription.  open: the subscription is live; durable, serial:
\* its options; inbox: the messages the client holds for it, oldest first;
\* pc: where its dispatch task stands; cur: the last message its handler got;
\* err: the error msgHandler is about to send on c.errch, and where it is from.
NoSub == [open |-> FALSE, durable |-> FALSE, serial |-> FALSE, inbox |-> <<>>,
          pc |-> "idle", cur |-> 0, err |-> "nil"]

\* A subscription that was closed: the task keeps running the callback it is
\* in, nothing else of the subscription is read again.
Closed(s) ==
  [NoSub EXCEPT !.pc = s.pc, !.cur = IF s.pc = "idle" THEN 0 ELSE s.cur,
                !.err = s.err]

\* make(chan error, 2)
ErrchCap == 2

\* A Subscribe that uses the client identifier whatever name it is given.
AlwaysClient(name) == ClientId

\* consumerName := opts.Name; if consumerName == "" { consumerName = c.client }
ConsumerName(name) == IF name = "" THEN ClientId ELSE name

\* A start position mapping that always asks for the oldest message.
AlwaysFirst(start) == 1

\* stan.StartAt(startPos): StartPosition_First is the oldest message of the
\* channel, StartPosition_NewOnly the first one published after subscribing.
StartSeq(start) == IF start = "first" THEN 1 ELSE Len(log) + 1

\* if opts.Serial { subOpts = append(subOpts, stan.MaxInflight(1)) }; without
\* it the backend's default (1024) applies, which no bounded stream reaches.
MaxInflight(serial) == IF serial THEN 1 ELSE 1024

\* if opts.Durable { subOpts = append(subOpts, stan.DurableName(durableName)) }
\* The group a subscription joins: the durable group of its name, or the
\* plain queue group that lives only as long as the subscription.
GroupKey(name, durable) == <<name, durable>>

KeyOf(n) == GroupKey(n, sub[n].durable)

\* The elements of a set of sequence numbers in increasing order.
RECURSIVE Sorted(_)
Sorted(S) ==
  IF S = {} THEN <<>>
  ELSE LET m == CHOOSE x \in S : \A y \in S : x <= y
       IN <<m>> \o Sorted(S \ {m})

\* Messages of group k that were sent and acknowledged.
Acked(k) == (grp[k].first .. grp[k].next - 1) \ grp[k].pend

\* The width of the integer that carries a time on the wire (64 in the
\* program), the instants it cannot carry, and the zero value of time.Time,
\* which is the year 1 and far below what the integer can carry.
NanoBits == 4
FarTime == 2 ^ (NanoBits - 1)
ZeroTime == 0 - 2 ^ NanoBits

\* A Message with nothing set (the zero value of the struct).  Data and Meta
\* are "nil" for no Data, "ok" for a Data that marshals and "bad" for a Data
\* whose Marshal returns an error.
NoMessage ==
  [ID |-> 0, Type |-> "", Time |-> ZeroTime, Data |-> "nil", Meta |-> "nil"]

\* No Marshal yet.  err is the text of the error a failed Marshal returned.
NoOut == [res |-> "none", bytes |-> <<>>, err |-> ""]

\* A value of the application (an interface{}): its dynamic type t and its
\* content v, a sequence of bytes.  NilValue is the nil interface.
NilValue == [t |-> "nil", v |-> <<>>]

\* The zero value of the Data struct.  A nil []byte is the empty sequence:
\* the program only stores slices that are nil or have elements.
NoData == [Encoding |-> "", Schema |-> "", value |-> NilValue, bytes |-> <<>>]

\* The Data d of a sender and the Data d2 of a receiver.
NoDatas == [d |-> NoData, d2 |-> NoData]

\* No Decode yet.  was is the target before the call, val after it.
NoTarget == [err |-> "none", val |-> NilValue, was |-> NilValue]

\* The names under which a codec is looked up.
CodecNames == {"bytes", "string", "json", "x"}

\* var codecs = map[string]Codec{"bytes": &bytesCodec{}, ...}: "none" for a
\* name that is not a key of the map.
BuiltInCodecs ==
  [n \in CodecNames |->
     CASE n = "bytes" -> "bytesCodec"
       [] n = "string" -> "stringCodec"
       [] n = "json" -> "jsonCodec"
       [] OTHER -> "none"]

\* The goroutines of the process that use the registry.
Goroutines == {1, 2}

\* A goroutine that is not inside a call of the registry.
Idle == [op |-> "idle", name |-> "", codec |-> "none", raced |-> FALSE]

\* No Get has returned yet.
NotGot == [name |-> "", c |-> "none", ok |-> FALSE]

\* The registry when the package is initialised: the built-in codecs, nobody
\* inside a call.  acc is the access to the map each goroutine is in the
\* middle of, got what the last Get returned, and fatal whether the runtime
\* stopped the process.
NoCalls ==
  [codecs |-> BuiltInCodecs, acc |-> [g \in Goroutines |-> Idle],
   got |-> NotGot, fatal |-> FALSE]

\* A field of a Reply or of a Message that points to no Data, and one that
\* points to the Data d.
NilPtr == [ptr |-> FALSE, d |-> NoData]
Ptr(d) == [ptr |-> TRUE, d |-> d]

\* var r Reply
NoReply == [Code |-> 0, Message |-> "", Data |-> NilPtr, Meta |-> NilPtr]

\* No Reply was made yet.  r: the sender's Reply; out: what its Marshal
\* returned; got: the receiver's Reply; done: the receiver has unmarshalled.
NoReplies == [r |-> NoReply, out |-> NoOut, got |-> NoReply, done |-> FALSE]

\* No Subscribe and no Close is running.  made: the consumer whose
\* QueueSubscribe has returned and whose subscription Subscribe has not yet put
\* into c.subs; close: how far Close has got; seen: the c.subs its range
\* statement read; raced: c.subs was written and read with nothing ordering
\* the two; fatal: the process crashed on what the read gave.
NoCall ==
  [made |-> "", close |-> "idle", seen |-> <<>>, raced |-> FALSE,
   fatal |-> FALSE]

\* Events of the environment so far.
Events == Len(log) + nev

Init ==
  /\ ver \in {"log", "errch"}
  /\ log = <<>>
  /\ grp = [k \in Keys |-> NoGrp]
  /\ sub = [n \in Names |-> NoSub]
  /\ connOpen = TRUE
  /\ crashed = FALSE
  /\ ctxDone = FALSE
  /\ errch = <<>>
  /\ hiDone = FALSE
  /\ waitRes = "none"
  /\ nev = 0
  /\ nuid = 0
  /\ ret = <<>>
  /\ subs = <<>>
  /\ ops = <<>>
  /\ env = NoMessage
  /\ out = NoOut
  /\ dat = NoDatas
  /\ tgt = NoTarget
  /\ reg = NoCalls
  /\ rcv = NoMessage
  /\ calls = NoCall
  /\ rep = NoReplies


----------------------------------------------------------------------------
(* Publishing.                                                             *)

\* The fields of pb.Event that the model carries, and the zero value of each
\* field of a message (IDs are numbered from 1, 0 stands for the empty
\* string; a time is a number, 0 the zero time).
PbFields == {"id", "type", "cause", "client"}

PbZero(f) ==
  IF f \in {"id", "cause", "time", "code"} THEN 0
  ELSE IF f \in {"data", "meta"} THEN <<>> ELSE ""

\* proto.Marshal (proto3): only the fields that are not zero are written.
Marshal(e) == [f \in {g \in DOMAIN e : e[g] # PbZero(g)} |-> e[f]]

\* proto.Unmarshal: a field that is not in the bytes reads as zero.
Unmarshal(b) == [f \in PbFields |-> IF f \in DOMAIN b THEN b[f] ELSE PbZero(f)]

\* A generator that hands out the same ID again and again.
FixedId(k) == 1

\* nuid.Next(): the generator of the process never repeats an ID.
NuidNext(k) == k + 1

\* A pb.Event that takes the client from the caller's event.
CallerClient(evt, id) ==
  [id |-> id, type |-> evt.Type, cause |-> evt.Cause, client |-> evt.Client]

\* A pb.Event without the cause.
NoCause(evt, id) ==
  [id |-> id, type |-> evt.Type, cause |-> 0, client |-> ClientId]

\* &pb.Event{Id: id, Type: evt.Type, Cause: evt.Cause, Client: c.client, ...}
PbEvent(evt, id) ==
  [id |-> id, type |-> evt.Type, cause |-> evt.Cause, client |-> ClientId]

\* A Publish that returns only when no subscriber has a message to
\* acknowledge.
WaitsForAcks == \A k \in Keys : grp[k].pend = {}

\* c.stan.Publish returns when the backend has stored the message, whatever
\* the subscribers have acknowledged.
PubReturns == TRUE

\* What a successful Publish of evt leaves behind: id := nuid.Next(), the
\* marshalled pb.Event at the end of the stream, and id returned to the
\* caller (ret keeps the call: the event given and the ID returned).
Published(evt) ==
  [log  |-> Append(log, [wf |-> TRUE, data |-> Marshal(PbEvent(evt, NuidNext(nuid)))]),
   ret  |-> Append(ret, [evt |-> evt, id |-> NuidNext(nuid), err |-> ""]),
   nuid |-> nuid + 1]

\* stanConn.Publish of the event evt.  The Publish of src/encode.go takes the
\* type and the cause only.
PublishEvent(evt) ==
  /\ connOpen /\ ~crashed
  /\ ver = "errch" => (evt.ID = 0 /\ evt.Client = "")
  /\ Events < MaxEvents
  /\ PubReturns
  /\ log' = Published(evt).log
  /\ ret' = Published(evt).ret
  /\ nuid' = Published(evt).nuid
  /\ UNCHANGED <<ver, grp, sub, connOpen, crashed, ctxDone, errch, hiDone,
                 waitRes, nev, subs, ops, env, out, dat, tgt, reg, rcv,
                 calls, rep>>

\* An Event with nothing set.
NoEvent == [ID |-> 0, Type |-> "", Cause |-> 0, Client |-> ""]

\* The event an application publishes on its own: a "tick" without a cause.
Tick == [ID |-> 0, Type |-> "tick", Cause |-> 0, Client |-> ""]

\* stanConn.Publish: proto.Marshal of a pb.Event, then c.stan.Publish.
Publish == PublishEvent(Tick)

\* The ways a Publish fails: evt.Data.Encode() returns an error; the backend
\* refuses the message (c.stan.Publish returns an error and has stored
\* nothing); the backend has stored the message and c.stan.Publish returns
\* an error all the same, its wait for the backend's acknowledgement having
\* run out.
Failures == {"encode", "refused", "ack lost"}

\* stanConn.Publish of the event evt when it returns an error: "", err before
\* an ID is made if the data does not encode, id, err if c.stan.Publish
\* fails.
PublishFails(evt, how) ==
  LET id == IF how = "encode" THEN 0 ELSE NuidNext(nuid)
  IN /\ ~crashed
     /\ how = "ack lost" => connOpen
     /\ Events < MaxEvents
     /\ nuid' = IF how = "encode" THEN nuid ELSE nuid + 1
     /\ ret' = Append(ret, [evt |-> evt, id |-> id,
                            err |-> IF how = "encode" THEN "encode"
                                    ELSE "publish"])
     /\ log' = IF how = "ack lost"
               THEN Append(log, [wf |-> TRUE, data |-> Marshal(PbEvent(evt, id))])
               ELSE log
     /\ nev' = IF how = "ack lost" THEN nev ELSE nev + 1
     /\ UNCHANGED <<ver, grp, sub, connOpen, crashed, ctxDone, errch, hiDone,
                    waitRes, subs, ops, env, out, dat, tgt, reg, rcv, calls,
                    rep>>

\* Another client of the backend publishes bytes that are no pb.Event
\* ("Message sent on stream that is not a protobuf format").
PublishForeign ==
  /\ Events < MaxEvents
  /\ log' = Append(log, [wf |-> FALSE, data |-> Marshal([f \in PbFields |-> PbZero(f)])])
  /\ ret' = Append(ret, [evt |-> NoEvent, id |-> 0, err |-> ""])
  /\ UNCHANGED <<ver, grp, sub, connOpen, crashed, ctxDone, errch, hiDone,
                 waitRes, nev, nuid, subs, ops, env, out, dat, tgt, reg, rcv,
                 calls, rep>>

----------------------------------------------------------------------------
(* The codecs (src/codec/codec.go).                                        *)

\* The codecs a program registers.
Codecs == {"bytesCodec", "stringCodec", "jsonCodec"}

\* c, ok := codecs[name]
Lookup(tab, name) ==
  IF name \in DOMAIN tab /\ tab[name] # "none"
  THEN [c |-> tab[name], ok |-> TRUE]
  ELSE [c |-> "none", ok |-> FALSE]

\* A Register that keeps the codec of no other name.
StoredAlone(tab, name, codec) ==
  [n \in DOMAIN tab |-> IF n = name THEN codec ELSE "none"]

\* codecs[name] = codec
Stored(tab, name, codec) == [tab EXCEPT ![name] = codec]

\* The names a program asks for: those of the table and one that nobody
\* registers.
GetNames == CodecNames \cup {"y"}

\* Register(name, codec), called while no other goroutine is in a call.
Register(name, codec) ==
  /\ \A g \in Goroutines : reg.acc[g] = Idle
  /\ reg' = [reg EXCEPT !.codecs = Stored(@, name, codec)]
  /\ UNCHANGED <<ver, log, grp, sub, connOpen, crashed, ctxDone, errch,
                 hiDone, waitRes, nev, nuid, ret, subs, ops, env, out, dat,
                 tgt, rcv, calls, rep>>

\* Get(name), called while no other goroutine is in a call.
Get(name) ==
  /\ \A g \in Goroutines : reg.acc[g] = Idle
  /\ reg' = [reg EXCEPT !.got = [name |-> name] @@ Lookup(reg.codecs, name)]
  /\ UNCHANGED <<ver, log, grp, sub, connOpen, crashed, ctxDone, errch,
                 hiDone, waitRes, nev, nuid, ret, subs, ops, env, out, dat,
                 tgt, rcv, calls, rep>>

\* The goroutines other than g that are inside an access of the map of the
\* kinds ops.
Inside(g, kinds) == {h \in Goroutines \ {g} : reg.acc[h].op \in kinds}

\* The accesses after goroutine g began the access a: an access that runs
\* together with a write of another goroutine is a data race, for both.
Began(g, a, racing) ==
  [h \in Goroutines |->
     IF h = g THEN [a EXCEPT !.raced = racing # {}]
     ELSE IF h \in racing THEN [reg.acc[h] EXCEPT !.raced = TRUE]
     ELSE reg.acc[h]]

\* Goroutine g enters Get(name) and begins to read the map.  Nothing orders
\* it with the other goroutines.
GetBegin(g, name) ==
  /\ ~reg.fatal /\ reg.acc[g] = Idle
  /\ reg' = [reg EXCEPT !.acc =
               Began(g, [Idle EXCEPT !.op = "get", !.name = name],
                     Inside(g, {"register"}))]
  /\ UNCHANGED <<ver, log, grp, sub, connOpen, crashed, ctxDone, errch,
                 hiDone, waitRes, nev, nuid, ret, subs, ops, env, out, dat,
                 tgt, rcv, calls, rep>>

\* Goroutine g enters Register(name, codec) and begins to write the map.
RegisterBegin(g, name, codec) ==
  /\ ~reg.fatal /\ reg.acc[g] = Idle
  /\ reg' = [reg EXCEPT !.acc =
               Began(g, [Idle EXCEPT !.op = "register", !.name = name,
                                     !.codec = codec],
                     Inside(g, {"get", "register"}))]
  /\ UNCHANGED <<ver, log, grp, sub, connOpen, crashed, ctxDone, errch,
                 hiDone, waitRes, nev, nuid, ret, subs, ops, env, out, dat,
                 tgt, rcv, calls, rep>>

\* What a read of the map can give when it ran together with a write: the
\* behaviour is not defined.
AnyResult == [c : Codecs \cup {"none"}, ok : BOOLEAN]

\* The tables a write can leave when it ran together with another access:
\* with the entry written, without it, or with the entry lost.
AnyTable(tab, name, codec) ==
  {Stored(tab, name, codec), tab, Stored(tab, name, "none")}

\* Goroutine g finishes its read and Get returns, or the runtime finds the
\* concurrent access and stops the process.
GetEnd(g) ==
  /\ ~reg.fatal /\ reg.acc[g].op = "get"
  /\ IF reg.acc[g].raced
     THEN \/ \E r \in AnyResult :
               reg' = [reg EXCEPT !.acc[g] = Idle,
                                  !.got = [name |-> reg.acc[g].name] @@ r]
          \/ reg' = [reg EXCEPT !.fatal = TRUE]
     ELSE reg' = [reg EXCEPT !.acc[g] = Idle,
                             !.got = [name |-> reg.acc[g].name]
                                       @@ Lookup(reg.codecs, reg.acc[g].name)]
  /\ UNCHANGED <<ver, log, grp, sub, connOpen, crashed, ctxDone, errch,
                 hiDone, waitRes, nev, nuid, ret, subs, ops, env, out, dat,
                 tgt, rcv, calls, rep>>

\* Goroutine g finishes its write and Register returns, or the runtime finds
\* the concurrent access and stops the process.
RegisterEnd(g) ==
  /\ ~reg.fatal /\ reg.acc[g].op = "register"
  /\ IF reg.acc[g].raced
     THEN \/ \E tab \in AnyTable(reg.codecs, reg.acc[g].name,
                                    reg.acc[g].codec) :
               reg' = [reg EXCEPT !.acc[g] = Idle, !.codecs = tab]
          \/ reg' = [reg EXCEPT !.fatal = TRUE]
     ELSE reg' = [reg EXCEPT !.acc[g] = Idle,
                             !.codecs = Stored(@, reg.acc[g].name,
                                               reg.acc[g].codec)]
  /\ UNCHANGED <<ver, log, grp, sub, connOpen, crashed, ctxDone, errch,
                 hiDone, waitRes, nev, nuid, ret, subs, ops, env, out, dat,
                 tgt, rcv, calls, rep>>

\* The values of the application: strings, byte slices and maps, each empty
\* or with content.
Contents == {<<>>, <<1>>}
Values == [t : {"string", "bytes", "map"}, v : Contents]

\* The variables a Decode is given a pointer to: strings and byte slices with
\* and without content, and a new map.
Targets ==
  [t : {"string", "bytes"}, v : {<<>>, <<2>>}] \cup {[t |-> "map", v |-> <<>>]}

\* encoding/json: a string is written between quotes, a byte slice as a
\* base64 string, a map between braces, nil as null.
JsonString(s) == <<34>> \o s \o <<34>>
JsonObject(s) == <<123>> \o s \o <<125>>
JsonNull == <<110, 117, 108, 108>>
B64(s) == [i \in 1..Len(s) |-> s[i] + 64]
UnB64(s) == [i \in 1..Len(s) |-> s[i] - 64]
IsB64(s) == \A i \in 1..Len(s) : s[i] >= 64
Inner(b) == SubSeq(b, 2, Len(b) - 1)
IsJsonString(b) == Len(b) >= 2 /\ b[1] = 34 /\ b[Len(b)] = 34
IsJsonObject(b) == Len(b) >= 2 /\ b[1] = 123 /\ b[Len(b)] = 125

\* json.Marshal(v)
JsonMarshal(v) ==
  CASE v.t = "string" -> JsonString(v.v)
    [] v.t = "bytes" -> JsonString(B64(v.v))
    [] v.t = "map" -> JsonObject(v.v)
    [] OTHER -> JsonNull

\* json.Unmarshal(b, v) for a v that points to the variable was: the error
\* and the variable afterwards.
JsonUnmarshal(b, was) ==
  CASE b = JsonNull -> [err |-> "", val |-> was]
    [] IsJsonString(b) /\ was.t = "string" ->
         [err |-> "", val |-> [t |-> "string", v |-> Inner(b)]]
    [] IsJsonString(b) /\ was.t = "bytes" /\ IsB64(Inner(b)) ->
         [err |-> "", val |-> [t |-> "bytes", v |-> UnB64(Inner(b))]]
    [] IsJsonObject(b) /\ was.t = "map" ->
         [err |-> "", val |-> [t |-> "map", v |-> Inner(b)]]
    [] OTHER -> [err |-> "json: cannot unmarshal", val |-> was]

\* Codec.Marshal(v) of the built-in codecs: the error and the bytes.
CodecMarshal(c, v) ==
  CASE c = "bytesCodec" ->
         IF v.t = "bytes" THEN [err |-> "", b |-> v.v]
         ELSE [err |-> "byte slice required", b |-> <<>>]
    [] c = "stringCodec" ->
         IF v.t = "string" THEN [err |-> "", b |-> v.v]
         ELSE [err |-> "string required", b |-> <<>>]
    [] OTHER -> [err |-> "", b |-> JsonMarshal(v)]

\* Codec.Unmarshal(b, v) of the built-in codecs for a v that points to the
\* variable was: the error and the variable afterwards.
CodecUnmarshal(c, b, was) ==
  CASE c = "bytesCodec" ->
         IF was.t = "bytes"
         THEN [err |-> "", val |-> [t |-> "bytes", v |-> b]]
         ELSE [err |-> "pointer to []byte required", val |-> was]
    [] c = "stringCodec" ->
         IF was.t = "string"
         THEN [err |-> "", val |-> [t |-> "string", v |-> b]]
         ELSE [err |-> "pointer to string required", val |-> was]
    [] OTHER -> JsonUnmarshal(b, was)

----------------------------------------------------------------------------
(* Data (src/types.go).                                                    *)

\* The fields of pb.Data.
DataFields == {"schema", "encoding", "data"}

\* proto.Unmarshal(b, &x) for a message with the fields F.
UnmarshalAs(b, F) == [f \in F |-> IF f \in DOMAIN b THEN b[f] ELSE PbZero(f)]

\* The encodings an application names: none, the built-in ones and one that
\* only another program has a codec for.
Encodings == {""} \cup CodecNames

\* &Data{Encoding: enc, Schema: s, value: v}
DataOf(enc, s, v) ==
  [Encoding |-> enc, Schema |-> s, value |-> v, bytes |-> <<>>]

\* codec.Get(name) on the registry of the process.
CodecGet(name) == Lookup(reg.codecs, name)

\* Data.Marshal: what it returns.
DataMarshal(d) ==
  IF d.value = NilValue /\ d.bytes = <<>> THEN [NoOut EXCEPT !.res = "ok"]
  ELSE IF d.Encoding = ""
  THEN [res |-> "err", bytes |-> <<>>, err |-> "no encoding specified"]
  ELSE LET c == CodecGet(d.Encoding)
           m == CodecMarshal(c.c, d.value)
           x == [schema |-> d.Schema, encoding |-> d.Encoding,
                 data |-> IF d.bytes # <<>> THEN d.bytes ELSE m.b]
       IN IF d.bytes = <<>> /\ ~c.ok
          THEN [res |-> "err", bytes |-> <<>>, err |-> "no codec for"]
          ELSE IF d.bytes = <<>> /\ m.err # ""
          THEN [res |-> "err", bytes |-> <<>>, err |-> m.err]
          ELSE [res |-> "ok", bytes |-> Marshal(x), err |-> ""]

\* Data.Unmarshal(b) on the Data d: the Data afterwards.
DataUnmarshal(d, b) ==
  LET x == UnmarshalAs(b, DataFields)
  IN [d EXCEPT !.Schema = x.schema, !.Encoding = x.encoding, !.bytes = x.data]

\* A Decode that empties the variable it was given when it has nothing to
\* decode with.
DecodeClears(d, was) ==
  IF d.bytes = <<>> \/ ~Lookup(reg.codecs, d.Encoding).ok
  THEN [err |-> "no data to decode", val |-> [was EXCEPT !.v = <<>>],
        was |-> was]
  ELSE [err |-> "", val |-> [was EXCEPT !.v = d.bytes], was |-> was]

\* Data.Decode(v) for a v that points to the variable was.
DataDecode(d, was) ==
  IF d.bytes = <<>>
  THEN [err |-> "no data to decode", val |-> was, was |-> was]
  ELSE LET c == CodecGet(d.Encoding)
           u == CodecUnmarshal(c.c, d.bytes, was)
       IN IF ~c.ok THEN [err |-> "no codec for", val |-> was, was |-> was]
          ELSE [err |-> u.err, val |-> u.val, was |-> was]

\* A Set that leaves the bytes of the Data where they are.
SetKeepsBytes(d, v) == [d EXCEPT !.value = v]

\* Data.Set(v) on the Data d.
DataSet(d, v) == [d EXCEPT !.value = v, !.bytes = <<>>]

\* The bytes of a Data that another program encoded with a codec of its own.
ForeignData == Marshal([schema |-> "", encoding |-> "x", data |-> <<1>>])

\* The Datas a sender makes: with the constructors or the struct itself, of
\* any encoding and value, and one with a schema.
Made ==
  {DataOf(enc, "", v) : enc \in Encodings, v \in Values \cup {NilValue}}
    \cup {DataOf("json", "s", [t |-> "map", v |-> <<1>>])}

\* A sender makes a Data, and a receiver starts with an empty one.  Each
\* behaviour follows one Data of a sender.
NewData(d) ==
  /\ d \in Made
  /\ dat = NoDatas
  /\ dat' = [d |-> d, d2 |-> NoData]
  /\ out' = NoOut
  /\ tgt' = NoTarget
  /\ UNCHANGED <<ver, log, grp, sub, connOpen, crashed, ctxDone, errch,
                 hiDone, waitRes, nev, nuid, ret, subs, ops, env, reg, rcv,
                 calls, rep>>

\* b, err := d.Marshal() on either Data.
MarshalData(w) ==
  /\ out' = DataMarshal(dat[w])
  /\ UNCHANGED <<ver, log, grp, sub, connOpen, crashed, ctxDone, errch,
                 hiDone, waitRes, nev, nuid, ret, subs, ops, env, dat, tgt,
                 reg, rcv, calls, rep>>

\* d2.Unmarshal(b) of the bytes the last Marshal returned or of the bytes of
\* another program, on the receiver's Data or on a new one.
UnmarshalData(fresh, foreign) ==
  /\ dat' = [dat EXCEPT !.d2 =
               DataUnmarshal(IF fresh THEN NoData ELSE @,
                             IF foreign THEN ForeignData ELSE out.bytes)]
  /\ UNCHANGED <<ver, log, grp, sub, connOpen, crashed, ctxDone, errch,
                 hiDone, waitRes, nev, nuid, ret, subs, ops, env, out, tgt,
                 reg, rcv, calls, rep>>

\* d2.Set(v)
SetData(v) ==
  /\ dat' = [dat EXCEPT !.d2 = DataSet(@, v)]
  /\ UNCHANGED <<ver, log, grp, sub, connOpen, crashed, ctxDone, errch,
                 hiDone, waitRes, nev, nuid, ret, subs, ops, env, out, tgt,
                 reg, rcv, calls, rep>>

\* A Decode that takes the bytes out of the Data it decoded.
Consumed(d, r) == IF r.err = "" THEN [d EXCEPT !.bytes = <<>>] ELSE d

\* The Data after a Decode that returned r: Decode assigns to no field.
Decoded(d, r) == d

\* err := d2.Decode(&v)
DecodeData(was) ==
  /\ tgt' = DataDecode(dat.d2, was)
  /\ dat' = [dat EXCEPT !.d2 = Decoded(@, tgt')]
  /\ UNCHANGED <<ver, log, grp, sub, connOpen, crashed, ctxDone, errch,
                 hiDone, waitRes, nev, nuid, ret, subs, ops, env, out, reg,
                 rcv, calls, rep>>

----------------------------------------------------------------------------
(* Message envelopes (src/types.go).                                       *)

\* The envelopes an application makes: without an ID or with one of its own,
\* with and without a type, without a time or with one (the epoch, a time
\* the wire can carry and one it cannot), with any of the three kinds of
\* data and meta.
DataKinds == {"nil", "ok", "bad"}
Messages ==
  [ID : {0, 101, 102}, Type : {"", "t"}, Time : {ZeroTime, 0, 1, FarTime},
   Data : DataKinds, Meta : DataKinds]

\* What time.Now() can return.
Times == {2, 3}

\* A setDefaults that takes a new ID and time on every call.
AlwaysNew(m, id, now) == [m EXCEPT !.ID = id, !.Time = now]

\* A setDefaults that leaves the time as it is.
NoTimeDefault(m, id, now) == [m EXCEPT !.ID = IF m.ID = 0 THEN id ELSE m.ID]

\* Message.setDefaults: if m.ID == "" { m.ID = NewID() };
\* if m.Time.IsZero() { m.Time = time.Now() }
setDefaults(m, id, now) ==
  [m EXCEPT !.ID = IF m.ID = 0 THEN id ELSE m.ID,
            !.Time = IF m.Time = ZeroTime THEN now ELSE m.Time]

\* Time.UnixNano(): the nanoseconds since the epoch as an integer of the
\* width of the wire.
UnixNano(t) == ((t + 2 ^ (NanoBits - 1)) % 2 ^ NanoBits) - 2 ^ (NanoBits - 1)

\* The Data an envelope points to: types.String("a"), or a Data with a value
\* and no encoding.
EnvData(k) ==
  DataOf(IF k = "ok" THEN "string" ELSE "", "", [t |-> "string", v |-> <<1>>])

\* A Marshal of the envelope that goes on without a field whose Marshal
\* failed.
SkipsFailed(k) ==
  IF k = "nil" \/ DataMarshal(EnvData(k)).res = "err"
  THEN [NoOut EXCEPT !.res = "ok"] ELSE DataMarshal(EnvData(k))

\* m.Data.Marshal() of a field of the envelope: nothing when it is nil.
FieldMarshal(k) ==
  IF k = "nil" THEN [NoOut EXCEPT !.res = "ok"] ELSE DataMarshal(EnvData(k))

\* The fields of pb.Message.
MessageFields == {"id", "type", "time", "data", "meta"}

\* x := &pb.Message{Id: m.ID, Type: m.Type, Time: m.Time.UnixNano()};
\* x.Data and x.Meta are set to the bytes of m.Data and m.Meta.
PbMessage(m) ==
  [id |-> m.ID, type |-> m.Type, time |-> UnixNano(m.Time),
   data |-> FieldMarshal(m.Data).bytes, meta |-> FieldMarshal(m.Meta).bytes]

\* The kind of the Data that Message.Unmarshal makes of a field of the wire.
KindOf(b) == IF b = <<>> THEN "nil" ELSE "ok"

\* Message.Unmarshal(b) into a new Message: m.ID = x.Id;
\* m.Time = time.Unix(0, x.Time); m.Type = x.Type, and a Data for the data
\* and the meta that are there.
MessageUnmarshal(b) ==
  LET x == UnmarshalAs(b, MessageFields)
  IN [ID |-> x.id, Type |-> x.type, Time |-> x.time, Data |-> KindOf(x.data),
      Meta |-> KindOf(x.meta)]

\* The application makes an envelope.
NewMessage(m) ==
  /\ env' = m
  /\ out' = NoOut
  /\ rcv' = NoMessage
  /\ UNCHANGED <<ver, log, grp, sub, connOpen, crashed, ctxDone, errch,
                 hiDone, waitRes, nev, nuid, ret, subs, ops, dat, tgt, reg,
                 calls, rep>>

\* var m2 Message; m2.Unmarshal(b) of the bytes the Marshal returned.
UnmarshalMessage ==
  /\ out.res = "ok"
  /\ rcv' = MessageUnmarshal(out.bytes)
  /\ UNCHANGED <<ver, log, grp, sub, connOpen, crashed, ctxDone, errch,
                 hiDone, waitRes, nev, nuid, ret, subs, ops, env, out, dat,
                 tgt, reg, calls, rep>>

\* Message.Marshal: m.setDefaults(), then the pb.Message and proto.Marshal,
\* or the error of m.Data.Marshal() or of m.Meta.Marshal().  NewID is
\* nuid.Next.
MessageMarshal(now) ==
  LET m == setDefaults(env, NuidNext(nuid), now)
      db == FieldMarshal(m.Data)
      mb == FieldMarshal(m.Meta)
  IN /\ nuid < MaxEvents
     /\ env' = m
     /\ nuid' = IF env.ID = 0 THEN nuid + 1 ELSE nuid
     /\ out' = IF db.res = "err" THEN db
               ELSE IF mb.res = "err" THEN mb
               ELSE [res |-> "ok", bytes |-> Marshal(PbMessage(m)),
                     err |-> ""]
     /\ UNCHANGED <<ver, log, grp, sub, connOpen, crashed, ctxDone, errch,
                    hiDone, waitRes, nev, ret, subs, ops, dat, tgt, reg, rcv,
                    calls, rep>>

----------------------------------------------------------------------------
(* Replies (src/types.go).                                                 *)

\* The Data a field of a Reply can point to: none, an empty one,
\* types.String("a"), a Data with a value and no encoding, and a JSON
\* object with a schema.
ReplyDatas ==
  {NilPtr, Ptr(NoData), Ptr(EnvData("ok")), Ptr(EnvData("bad")),
   Ptr(DataOf("json", "s", [t |-> "map", v |-> <<1>>]))}

\* The replies an application makes.
Replies ==
  [Code : {0, 1}, Message : {"", "m"}, Data : ReplyDatas, Meta : ReplyDatas]

\* The fields of pb.Reply.
ReplyFields == {"code", "msg", "data", "meta"}

\* r.Data.Marshal() of a field of the reply: nothing when it is nil.
PtrMarshal(p) ==
  IF p.ptr THEN DataMarshal(p.d) ELSE [NoOut EXCEPT !.res = "ok"]

\* Reply.Marshal: the pb.Reply with the bytes of data and meta, or the error
\* of r.Data.Marshal() or of r.Meta.Marshal().
ReplyMarshal(r) ==
  LET db == PtrMarshal(r.Data)
      mb == PtrMarshal(r.Meta)
      x  == [code |-> r.Code, msg |-> r.Message, data |-> db.bytes,
             meta |-> mb.bytes]
  IN IF db.res = "err" THEN db
     ELSE IF mb.res = "err" THEN mb
     ELSE [res |-> "ok", bytes |-> Marshal(x), err |-> ""]

\* Reply.Unmarshal(b) on the Reply r: var data Data; data.Unmarshal(x.Data);
\* r.Code = Code(x.Code); r.Message = x.Msg; r.Data = &data.  x.Meta is not
\* read.
ReplyUnmarshal(r, b) ==
  LET x == UnmarshalAs(b, ReplyFields)
  IN [r EXCEPT !.Code = x.code, !.Message = x.msg,
               !.Data = Ptr(DataUnmarshal(NoData, x.data))]

\* The application makes a Reply.
NewReply(r) ==
  /\ rep' = [NoReplies EXCEPT !.r = r]
  /\ UNCHANGED <<ver, log, grp, sub, connOpen, crashed, ctxDone, errch,
                 hiDone, waitRes, nev, nuid, ret, subs, ops, env, out, dat,
                 tgt, reg, rcv, calls>>

\* b, err := r.Marshal()
MarshalReply ==
  /\ rep' = [rep EXCEPT !.out = ReplyMarshal(rep.r)]
  /\ UNCHANGED <<ver, log, grp, sub, connOpen, crashed, ctxDone, errch,
                 hiDone, waitRes, nev, nuid, ret, subs, ops, env, out, dat,
                 tgt, reg, rcv, calls>>

\* var r2 Reply; r2.Unmarshal(b) of the bytes the Marshal returned.
UnmarshalReply ==
  /\ rep.out.res = "ok"
  /\ rep' = [rep EXCEPT !.got = ReplyUnmarshal(NoReply, rep.out.bytes),
                        !.done = TRUE]
  /\ UNCHANGED <<ver, log, grp, sub, connOpen, crashed, ctxDone, errch,
                 hiDone, waitRes, nev, nuid, ret, subs, ops, env, out, dat,
                 tgt, reg, rcv, calls>>

----------------------------------------------------------------------------
(* Subscribing.                                                            *)

\* A reset that leaves the durable group as it is.
KeepsDurable(g, n) == g

\* resetDurable: join the durable group of the name and Unsubscribe, which
\* makes the backend drop the group's offset.
ResetDurable(g, n) == [g EXCEPT ![GroupKey(n, TRUE)] = NoGrp]

\* A subscription made without the durable name: it never resumes.
AlwaysFresh(g, k, start) ==
  [first |-> StartSeq(start), next |-> StartSeq(start), pend |-> {}]

\* What QueueSubscribe makes of group k: a durable group the backend still
\* holds is resumed as it was left, anything else starts at the start position.
JoinGroup(g, k, start) ==
  IF k[2] /\ g[k] # NoGrp
  THEN g[k]
  ELSE [first |-> StartSeq(start), next |-> StartSeq(start), pend |-> {}]

\* c.subs = append(c.subs, sub); the connection of src/stan.go keeps no list.
Track(ss, n) == IF ver = "errch" THEN Append(ss, n) ELSE ss

\* stanConn.Subscribe
Subscribe(name, durable, reset, serial, start) ==
  LET n  == ConsumerName(name)
      g1 == IF reset THEN ResetDurable(grp, n) ELSE grp
      k  == GroupKey(n, durable)
      o  == JoinGroup(g1, k, start)
  IN /\ connOpen /\ ~crashed
     /\ Events < MaxEvents
     /\ ~sub[n].open /\ sub[n].pc = "idle"
     /\ grp' = [g1 EXCEPT ![k] = o]
        \* a resumed durable gets its unacknowledged messages again at once
     /\ sub' = [sub EXCEPT ![n] =
                  [open |-> TRUE, durable |-> durable, serial |-> serial,
                   inbox |-> Sorted(o.pend), pc |-> "idle", cur |-> 0,
                   err |-> "nil"]]
     /\ subs' = Track(subs, n)
     /\ nev' = nev + 1
     /\ UNCHANGED <<ver, log, connOpen, crashed, ctxDone, errch, hiDone,
                    waitRes, nuid, ret, ops, env, out, dat, tgt, reg, rcv,
                    calls, rep>>

\* The ways a Subscribe call returns an error: resetDurable fails before it
\* has unsubscribed, the start position is none of the known ones (src/
\* encode.go only), or the backend rejects the QueueSubscribe.
SubscribeErrors == {"reset", "position", "refused"}

\* stanConn.Subscribe returning nil and an error.  The reset comes first in
\* the code: it is done when one of the later steps fails.
SubscribeFails(name, reset, how) ==
  LET n == ConsumerName(name)
  IN /\ connOpen /\ ~crashed
     /\ Events < MaxEvents
     /\ ~sub[n].open /\ sub[n].pc = "idle"
     /\ how = "reset" => reset
     /\ how = "position" => ver = "errch"
     /\ grp' = IF reset /\ how # "reset" THEN ResetDurable(grp, n) ELSE grp
     /\ nev' = nev + 1
     /\ UNCHANGED <<ver, log, sub, connOpen, crashed, ctxDone, errch, hiDone,
                    waitRes, nuid, ret, subs, ops, env, out, dat, tgt, reg,
                    rcv, calls, rep>>

----------------------------------------------------------------------------
(* The backend's side of a subscription.                                   *)

\* The backend sends the group's next message while fewer than MaxInflight
\* of its messages are unacknowledged.
Deliver(n) ==
  LET k == KeyOf(n)
      m == grp[k].next
  IN /\ ~crashed /\ sub[n].open
     /\ m <= Len(log)
     /\ Cardinality(grp[k].pend) < MaxInflight(sub[n].serial)
     /\ grp' = [grp EXCEPT ![k].pend = @ \cup {m}, ![k].next = m + 1]
     /\ sub' = [sub EXCEPT ![n].inbox = Append(@, m)]
     /\ UNCHANGED <<ver, log, connOpen, crashed, ctxDone, errch, hiDone,
                    waitRes, nev, nuid, ret, subs, ops, env, out, dat, tgt,
                    reg, rcv, calls, rep>>

\* An AckWait timer that aborts the callback the subscription is running.
Interrupting(n, m) ==
  /\ ~crashed /\ sub[n].open
  /\ m \in grp[KeyOf(n)].pend
  /\ Events < MaxEvents
  /\ nev' = nev + 1
  /\ sub' = [sub EXCEPT ![n].inbox = Append(@, m), ![n].pc = "idle"]
  /\ UNCHANGED <<ver, log, grp, connOpen, crashed, ctxDone, errch, hiDone,
                 waitRes, nuid, ret, subs, ops, env, out, dat, tgt, reg, rcv,
                 calls, rep>>

\* stan.AckWait(opts.Timeout): the time has run out for the unacknowledged
\* message m and the backend sends it again.
Redeliver(n, m) ==
  /\ ~crashed /\ sub[n].open
  /\ m \in grp[KeyOf(n)].pend
  /\ Events < MaxEvents
  /\ nev' = nev + 1
  /\ sub' = [sub EXCEPT ![n].inbox = Append(@, m)]
  /\ UNCHANGED <<ver, log, grp, connOpen, crashed, ctxDone, errch, hiDone,
                 waitRes, nuid, ret, subs, ops, env, out, dat, tgt, reg, rcv,
                 calls, rep>>

----------------------------------------------------------------------------
(* msgHandler, the dispatch task of a subscription.  The client library    *)
(* runs the callbacks of one subscription one after the other.             *)

\* An error branch without its return: control falls through to msg.Ack().
FallsThrough == "ack"

\* Where msgHandler goes with an error: ver "log" prints it and returns,
\* ver "errch" has to send it on c.errch first.
OnError == IF ver = "log" THEN "idle" ELSE "errsend"

\* The error msgHandler holds at pc: the one of the failed call on the way to
\* c.errch <- err, none anywhere else.
ErrAt(pc, e) == IF pc = "errsend" THEN e ELSE "nil"

\* err := proto.Unmarshal(msg.Data, &e): the handler is called only for
\* bytes that are a pb.Event.
AfterUnmarshal(wf) == IF wf THEN "handling" ELSE OnError

\* A msgHandler that ignores what the handler returned.
AlwaysAck(outcome) == "ack"

\* if err := handle(ctx, evt, c); err != nil { ...; return }  msg.Ack()
AfterHandle(outcome) == IF outcome = "ok" THEN "ack" ELSE OnError

\* msgHandler is entered with the oldest message waiting in the subscription.
MsgHandler(n) ==
  LET m  == Head(sub[n].inbox)
      pc == AfterUnmarshal(log[m].wf)
  IN /\ ~crashed
     /\ sub[n].pc = "idle" /\ sub[n].inbox # <<>>
     /\ sub' = [sub EXCEPT ![n].inbox = Tail(@), ![n].pc = pc,
                           ![n].cur = IF pc = "handling" THEN m ELSE @,
                           ![n].err = ErrAt(pc, "unmarshal")]
     /\ UNCHANGED <<ver, log, grp, connOpen, crashed, ctxDone, errch, hiDone,
                    waitRes, nev, nuid, ret, subs, ops, env, out, dat, tgt,
                    reg, rcv, calls, rep>>

\* The handler returns nil or an error.
HandlerReturn(n, outcome) ==
  /\ ~crashed /\ sub[n].pc = "handling"
  /\ sub' = [sub EXCEPT ![n].pc = AfterHandle(outcome),
                        ![n].err = ErrAt(AfterHandle(outcome), "handler")]
  /\ UNCHANGED <<ver, log, grp, connOpen, crashed, ctxDone, errch, hiDone,
                 waitRes, nev, nuid, ret, subs, ops, env, out, dat, tgt, reg,
                 rcv, calls, rep>>

\* evt := &Event{ID: e.Id, Type: e.Type, Cause: e.Cause, Client: e.Client, ...}
\* The event msgHandler hands to the handler for message m.
EventOf(m) ==
  LET e == Unmarshal(log[m].data)
  IN [ID |-> e.id, Type |-> e.type, Cause |-> e.cause, Client |-> e.client]

\* A handler publishes the event it was given as it is and goes on.
Republish(n) ==
  /\ sub[n].pc = "handling"
  /\ PublishEvent(EventOf(sub[n].cur))

\* switch evt.Type { case "tick": next = "tock"; case "tock": next = "tick" }
\* &eda.Event{Type: next, Cause: evt.ID}
NextEvent(evt) ==
  [ID |-> 0, Type |-> IF evt.Type = "tick" THEN "tock" ELSE "tick",
   Cause |-> evt.ID, Client |-> ""]

\* The handler of the clock example: it publishes the next event with the
\* event it was given as the cause and returns what Publish returned, an
\* error when the connection is closed.
ClockHandle(n) ==
  LET evt == NextEvent(EventOf(sub[n].cur))
      pc  == AfterHandle(IF connOpen THEN "ok" ELSE "err")
  IN /\ ~crashed /\ sub[n].pc = "handling"
     /\ Events < MaxEvents
     /\ PubReturns
     /\ log' = IF connOpen THEN Published(evt).log ELSE log
     /\ ret' = IF connOpen THEN Published(evt).ret ELSE ret
     /\ nuid' = Published(evt).nuid
     /\ sub' = [sub EXCEPT ![n].pc = pc, ![n].err = ErrAt(pc, "handler")]
     /\ UNCHANGED <<ver, grp, connOpen, crashed, ctxDone, errch, hiDone,
                    waitRes, nev, subs, ops, env, out, dat, tgt, reg, rcv,
                    calls, rep>>

\* msg.Ack() fails with ErrBadSubscription / ErrBadConnection once the
\* subscription or the connection is closed.
AckOk(n) == sub[n].open /\ connOpen

\* if err := msg.Ack(); err != nil { ... }
Ack(n) ==
  /\ ~crashed /\ sub[n].pc = "ack"
  /\ IF AckOk(n)
     THEN /\ grp' = [grp EXCEPT ![KeyOf(n)].pend = @ \ {sub[n].cur}]
          /\ sub' = [sub EXCEPT ![n].pc = "idle"]
     ELSE /\ grp' = grp
          /\ sub' = [sub EXCEPT ![n].pc = OnError, ![n].err = ErrAt(OnError, "ack")]
  /\ UNCHANGED <<ver, log, connOpen, crashed, ctxDone, errch, hiDone,
                 waitRes, nev, nuid, ret, subs, ops, env, out, dat, tgt, reg,
                 rcv, calls, rep>>

\* msg.Ack() returns an error although subscription and connection are open:
\* the acknowledgement could not be sent (the link to the backend is down).
AckFails(n) ==
  /\ ~crashed /\ sub[n].pc = "ack"
  /\ AckOk(n)
  /\ sub' = [sub EXCEPT ![n].pc = OnError, ![n].err = ErrAt(OnError, "ack")]
  /\ UNCHANGED <<ver, log, grp, connOpen, crashed, ctxDone, errch, hiDone,
                 waitRes, nev, nuid, ret, subs, ops, env, out, dat, tgt, reg,
                 rcv, calls, rep>>

\* c.errch <- err; c.cancel(); return   (blocks while the channel is full)
ErrSend(n) ==
  /\ ~crashed /\ sub[n].pc = "errsend"
  /\ Len(errch) < ErrchCap
  /\ errch' = Append(errch, "err")
  /\ ctxDone' = TRUE
  /\ sub' = [sub EXCEPT ![n].pc = "idle", ![n].err = "nil"]
  /\ UNCHANGED <<ver, log, grp, connOpen, crashed, hiDone, waitRes, nev,
                 nuid, ret, subs, ops, env, out, dat, tgt, reg, rcv, calls,
                 rep>>

----------------------------------------------------------------------------
(* Closing.                                                                *)

\* A Close that gives the group up as Unsubscribe does.
DropsGroup(g, k) == [g EXCEPT ![k] = NoGrp]

\* The backend forgets a plain queue group with its last member and keeps a
\* durable one.
LeaveGroup(g, k) == IF k[2] THEN g ELSE [g EXCEPT ![k] = NoGrp]

\* Subscription.Close: s.sub.Close()
SubClose(n) ==
  /\ ~crashed /\ sub[n].open
  /\ sub' = [sub EXCEPT ![n] = Closed(@)]
  /\ grp' = LeaveGroup(grp, KeyOf(n))
  /\ UNCHANGED <<ver, log, connOpen, crashed, ctxDone, errch, hiDone,
                 waitRes, nev, nuid, ret, subs, ops, env, out, dat, tgt, reg,
                 rcv, calls, rep>>

\* Subscription.Unsubscribe: s.sub.Unsubscribe()
SubUnsubscribe(n) ==
  /\ ~crashed /\ sub[n].open
  /\ sub' = [sub EXCEPT ![n] = Closed(@)]
  /\ grp' = [grp EXCEPT ![KeyOf(n)] = NoGrp]
  /\ UNCHANGED <<ver, log, connOpen, crashed, ctxDone, errch, hiDone,
                 waitRes, nev, nuid, ret, subs, ops, env, out, dat, tgt, reg,
                 rcv, calls, rep>>

\* A Close that closes the session first and the subscriptions after it.
SessionFirst ==
  <<[call |-> "stan.Close", arg |-> 0]>>
  \o [i \in 1..Len(subs) |-> [call |-> "sub.Close", arg |-> i]]
  \o <<[call |-> "nats.Close", arg |-> 0]>>

\* The calls stanConn.Close makes, in their order: s.Close() for the i-th
\* element of c.subs, then c.stan.Close(), then c.nats.Close().
CloseCalls ==
  [i \in 1..Len(subs) |-> [call |-> "sub.Close", arg |-> i]]
  \o <<[call |-> "stan.Close", arg |-> 0], [call |-> "nats.Close", arg |-> 0]>>

\* stanConn.Close: (c.cancel(); every tracked subscription's Close();)
\* c.stan.Close(); c.nats.Close().  Closing the session ends every
\* subscription of the client at the backend, durable offsets kept.
ClosedConn ==
  [open |-> FALSE,
   done |-> (ver = "errch") \/ ctxDone,
   subs |-> [n \in Names |-> Closed(sub[n])],
   grps |-> [k \in Keys |-> IF k[2] THEN grp[k] ELSE NoGrp],
   ops  |-> CloseCalls]

ConnClose ==
  /\ ~crashed /\ connOpen
  /\ connOpen' = ClosedConn.open
  /\ ctxDone' = ClosedConn.done
  /\ sub' = ClosedConn.subs
  /\ grp' = ClosedConn.grps
  /\ ops' = ClosedConn.ops
  /\ UNCHANGED <<ver, log, crashed, errch, hiDone, waitRes, nev, nuid, ret,
                 subs, env, out, dat, tgt, reg, rcv, calls, rep>>

\* A deferred function that re-raises the panic without c.Close().
NotClosed ==
  [open |-> connOpen, done |-> ctxDone, subs |-> sub, grps |-> grp, ops |-> ops]

\* defer func() { if err := recover(); err != nil { (c.cancel();) c.Close();
\* panic(err) } }(): what the deferred function leaves behind.
Recovered == ClosedConn

\* The handler panics: the deferred function runs and re-raises the panic.
HandlerPanic(n) ==
  /\ ~crashed /\ sub[n].pc = "handling"
  /\ connOpen' = Recovered.open
  /\ ctxDone' = Recovered.done
  /\ grp' = Recovered.grps
  /\ sub' = [Recovered.subs EXCEPT ![n].pc = "panic"]
  /\ crashed' = TRUE
  /\ ops' = Recovered.ops
  /\ UNCHANGED <<ver, log, errch, hiDone, waitRes, nev, nuid, ret, subs, env,
                 out, dat, tgt, reg, rcv, calls, rep>>

----------------------------------------------------------------------------
(* Subscribe and Close of src/encode.go as calls of two goroutines.  c.subs *)
(* has no lock: Subscribe writes it after QueueSubscribe has returned,      *)
(* Close reads it once, when its range statement begins.                    *)

\* Subscribe up to the return of c.stan.QueueSubscribe: the subscription is
\* live at the backend and not yet in c.subs.
SubscribeMade(name, durable) ==
  LET n == ConsumerName(name)
      k == GroupKey(n, durable)
      o == JoinGroup(grp, k, "first")
  IN /\ ver = "errch" /\ connOpen /\ ~crashed /\ ~calls.fatal
     /\ calls.made = ""
     /\ Events < MaxEvents
     /\ ~sub[n].open /\ sub[n].pc = "idle"
     /\ grp' = [grp EXCEPT ![k] = o]
     /\ sub' = [sub EXCEPT ![n] =
                  [open |-> TRUE, durable |-> durable, serial |-> FALSE,
                   inbox |-> Sorted(o.pend), pc |-> "idle", cur |-> 0,
                   err |-> "nil"]]
     /\ nev' = nev + 1
     /\ calls' = [calls EXCEPT !.made = n]
     /\ UNCHANGED <<ver, log, connOpen, crashed, ctxDone, errch, hiDone,
                    waitRes, nuid, ret, subs, ops, env, out, dat, tgt, reg,
                    rcv, rep>>

\* c.subs = append(c.subs, sub); return sub, nil.  The write runs together
\* with the read of a Close that stands before its range statement.
SubscribeTrack ==
  /\ calls.made # "" /\ ~calls.fatal
  /\ subs' = Track(subs, calls.made)
  /\ calls' = [calls EXCEPT !.made = "",
                            !.raced = @ \/ calls.close = "called"]
  /\ UNCHANGED <<ver, log, grp, sub, connOpen, crashed, ctxDone, errch,
                 hiDone, waitRes, nev, nuid, ret, ops, env, out, dat, tgt,
                 reg, rcv, rep>>

\* Close: c.cancel()
CloseBegin ==
  /\ ver = "errch" /\ connOpen /\ ~crashed /\ ~calls.fatal
  /\ calls.close = "idle"
  /\ ctxDone' = TRUE
  /\ calls' = [calls EXCEPT !.close = "called"]
  /\ UNCHANGED <<ver, log, grp, sub, connOpen, crashed, errch, hiDone,
                 waitRes, nev, nuid, ret, subs, ops, env, out, dat, tgt, reg,
                 rcv, rep>>

\* What the range statement can read as c.subs: the list as it is; when a
\* Subscribe is writing it or has written it with nothing ordering the two,
\* also the list with or without that subscription.
Views ==
  IF calls.made # "" THEN {subs, Append(subs, calls.made)}
  ELSE IF calls.raced /\ subs # <<>>
       THEN {subs, SubSeq(subs, 1, Len(subs) - 1)}
       ELSE {subs}

\* The subscriptions after s.Close() was called on each element of seen.
ClosedEach(seen) ==
  [n \in Names |->
     IF \E i \in DOMAIN seen : seen[i] = n THEN Closed(sub[n]) ELSE sub[n]]

\* The groups after s.Close() on each element of seen: a plain queue group
\* ends with its subscription, a durable one is kept.
LeftEach(seen) ==
  [k \in Keys |->
     IF ~k[2] /\ \E i \in DOMAIN seen : sub[seen[i]].open /\ KeyOf(seen[i]) = k
     THEN NoGrp ELSE grp[k]]

\* Close: for _, s := range c.subs { s.Close() }.  A read that ran together
\* with the write gives either list, or a slice header that is half old and
\* half new, on which the loop crashes.
CloseRange ==
  /\ calls.close = "called" /\ ~crashed /\ ~calls.fatal
  /\ \E newer \in BOOLEAN, torn \in BOOLEAN :
       LET racing == calls.made # "" \/ calls.raced
           seen   == CHOOSE v \in Views :
                       newer = (\A w \in Views : Len(w) <= Len(v))
       IN /\ (torn \/ ~newer) => racing
          /\ IF torn
             THEN /\ calls' = [calls EXCEPT !.raced = TRUE, !.fatal = TRUE]
                  /\ UNCHANGED <<sub, grp>>
             ELSE /\ calls' = [calls EXCEPT !.close = "ranged", !.seen = seen,
                                            !.raced = @ \/ calls.made # ""]
                  /\ sub' = ClosedEach(seen)
                  /\ grp' = LeftEach(seen)
  /\ UNCHANGED <<ver, log, connOpen, crashed, ctxDone, errch, hiDone,
                 waitRes, nev, nuid, ret, subs, ops, env, out, dat, tgt, reg,
                 rcv, rep>>

\* Close: c.stan.Close(); c.nats.Close(); return nil.  Closing the session
\* ends every subscription of the client at the backend.
CloseSession ==
  /\ calls.close = "ranged" /\ ~crashed /\ ~calls.fatal
  /\ connOpen' = FALSE
  /\ sub' = [n \in Names |-> Closed(sub[n])]
  /\ grp' = [k \in Keys |-> IF k[2] THEN grp[k] ELSE NoGrp]
  /\ ops' = [i \in 1..Len(calls.seen) |-> [call |-> "sub.Close", arg |-> i]]
            \o <<[call |-> "stan.Close", arg |-> 0],
                 [call |-> "nats.Close", arg |-> 0]>>
  /\ calls' = [calls EXCEPT !.close = "returned"]
  /\ UNCHANGED <<ver, log, crashed, ctxDone, errch, hiDone, waitRes, nev,
                 nuid, ret, subs, env, out, dat, tgt, reg, rcv, rep>>

----------------------------------------------------------------------------
(* handleInterrupt and Wait (ver = "errch").  <-c.ctx.Done() reads a       *)
(* condition that never becomes false again, so a task that has passed it  *)
(* and one that still stands before it with the context cancelled behave   *)
(* alike: each task's wait for the context is one step with what follows.  *)

\* handleInterrupt, case s := <-sig: c.cancel()
InterruptSignal ==
  /\ ver = "errch" /\ ~crashed /\ ~hiDone
  /\ ~ctxDone
  /\ Events < MaxEvents
  /\ nev' = nev + 1
  /\ ctxDone' = TRUE
  /\ UNCHANGED <<ver, log, grp, sub, connOpen, crashed, errch, hiDone,
                 waitRes, nuid, ret, subs, ops, env, out, dat, tgt, reg, rcv,
                 calls, rep>>

\* Connect: ctx, cancel := context.WithCancel(ctx).  The application
\* cancels the context it gave to Connect, and c.ctx is done with it.
CtxCancel ==
  /\ ver = "errch" /\ ~crashed
  /\ ~ctxDone
  /\ Events < MaxEvents
  /\ nev' = nev + 1
  /\ ctxDone' = TRUE
  /\ UNCHANGED <<ver, log, grp, sub, connOpen, crashed, errch, hiDone,
                 waitRes, nuid, ret, subs, ops, env, out, dat, tgt, reg, rcv,
                 calls, rep>>

\* A handleInterrupt that ends without its send.
InterruptQuiet ==
  /\ ver = "errch" /\ ~crashed /\ ~hiDone
  /\ ctxDone
  /\ hiDone' = TRUE
  /\ UNCHANGED <<ver, log, grp, sub, connOpen, crashed, ctxDone, errch,
                 waitRes, nev, nuid, ret, subs, ops, env, out, dat, tgt, reg,
                 rcv, calls, rep>>

\* handleInterrupt, after either case of the select: c.errch <- nil
InterruptSend ==
  /\ ver = "errch" /\ ~crashed /\ ~hiDone
  /\ ctxDone
  /\ Len(errch) < ErrchCap
  /\ errch' = Append(errch, "nil")
  /\ hiDone' = TRUE
  /\ UNCHANGED <<ver, log, grp, sub, connOpen, crashed, ctxDone, waitRes,
                 nev, nuid, ret, subs, ops, env, out, dat, tgt, reg, rcv,
                 calls, rep>>

\* stanConn.Wait: <-c.ctx.Done(); return <-c.errch
Wait ==
  /\ ver = "errch" /\ ~crashed /\ waitRes = "none"
  /\ ctxDone
  /\ errch # <<>>
  /\ waitRes' = Head(errch)
  /\ errch' = Tail(errch)
  /\ UNCHANGED <<ver, log, grp, sub, connOpen, crashed, ctxDone, hiDone, nev,
                 nuid, ret, subs, ops, env, out, dat, tgt, reg, rcv, calls,
                 rep>>

----------------------------------------------------------------------------

\* The steps of the backend and of the connection's tasks.
Others ==
  \/ Publish
  \/ PublishForeign
  \/ \E n \in Names : Deliver(n)
  \/ \E n \in Names, m \in MsgSeqs : Redeliver(n, m)
  \/ \E n \in Names : MsgHandler(n)
  \/ \E n \in Names, outcome \in {"ok", "err"} : HandlerReturn(n, outcome)
  \/ \E n \in Names : HandlerPanic(n)
  \/ \E n \in Names : Ack(n)
  \/ \E n \in Names : ErrSend(n)
  \/ \E n \in Names : SubClose(n)
  \/ \E n \in Names : SubUnsubscribe(n)
  \/ ConnClose
  \/ InterruptSignal
  \/ InterruptSend

\* One consumer, the connection's default one, subscribed with any options,
\* in an application that does not call Wait.
Next ==
  \/ \E durable \in BOOLEAN, reset \in BOOLEAN, serial \in BOOLEAN,
        start \in StartPositions :
       Subscribe("", durable, reset, serial, start)
  \/ Others

Spec == Init /\ [][Next]_vars

\* The same in an application that calls Wait.
NextWait == Next \/ Wait

SpecWait == Init /\ [][NextWait]_vars

\* Two consumers on the connection, each subscribed with the package's
\* defaults for Serial and StartPosition and no Reset, on a stream that
\* carries events only.
NextSiblings ==
  \/ \E name \in NameArgs, durable \in BOOLEAN :
       Subscribe(name, durable, FALSE, TRUE, "first")
  \/ Publish
  \/ \E n \in Names : Deliver(n)
  \/ \E n \in Names : MsgHandler(n)
  \/ \E n \in Names, outcome \in {"ok", "err"} : HandlerReturn(n, outcome)
  \/ \E n \in Names : HandlerPanic(n)
  \/ \E n \in Names : Ack(n)
  \/ \E n \in Names : ErrSend(n)
  \/ \E n \in Names : SubClose(n)
  \/ ConnClose
  \/ InterruptSend

SpecSiblings == Init /\ [][NextSiblings]_vars

----------------------------------------------------------------------------
(* The connection that logs its errors (ver = "log") by itself, with the   *)
(* scheduling it runs under: the client library's dispatch task takes the  *)
(* next waiting message, a handler returns or panics, msg.Ack() completes, *)
(* and the backend's AckWait timer of an unacknowledged message fires.     *)

InitLog == Init /\ ver = "log"

NextLog ==
  \/ \E durable \in BOOLEAN, serial \in BOOLEAN :
       Subscribe("", durable, FALSE, serial, "first")
  \/ Publish
  \/ PublishForeign
  \/ \E n \in Names : Deliver(n)
  \/ \E n \in Names, m \in MsgSeqs : Redeliver(n, m)
  \/ \E n \in Names : MsgHandler(n)
  \/ \E n \in Names, outcome \in {"ok", "err"} : HandlerReturn(n, outcome)
  \/ \E n \in Names : HandlerPanic(n)
  \/ \E n \in Names : Ack(n)
  \/ \E n \in Names : SubClose(n)
  \/ \E n \in Names : SubUnsubscribe(n)
  \/ ConnClose

Fairness ==
  \A n \in Names :
    /\ WF_vars(MsgHandler(n))
    /\ WF_vars(HandlerReturn(n, "ok") \/ HandlerReturn(n, "err") \/ HandlerPanic(n))
    /\ WF_vars(Ack(n))
    /\ \A m \in MsgSeqs : WF_vars(Redeliver(n, m))

SpecLog == InitLog /\ [][NextLog]_vars /\ Fairness

----------------------------------------------------------------------------
(* The connection that reports its errors on c.errch (ver = "errch") in an *)
(* application that calls Wait once, with a consumer that is not serial,   *)
(* so that several handler errors can be on their way at a time.  The      *)
(* scheduler lets the task in Wait and the handleInterrupt task run.       *)

InitErrch == Init /\ ver = "errch"

NextTerm ==
  \/ \E durable \in BOOLEAN : Subscribe("", durable, FALSE, FALSE, "first")
  \/ Publish
  \/ \E n \in Names : Deliver(n)
  \/ \E n \in Names : MsgHandler(n)
  \/ \E n \in Names, outcome \in {"ok", "err"} : HandlerReturn(n, outcome)
  \/ \E n \in Names : HandlerPanic(n)
  \/ \E n \in Names : Ack(n)
  \/ \E n \in Names : ErrSend(n)
  \/ \E n \in Names : SubClose(n)
  \/ ConnClose
  \/ InterruptSignal
  \/ CtxCancel
  \/ InterruptSend
  \/ Wait

SpecTerm ==
  InitErrch /\ [][NextTerm]_vars /\ WF_vars(Wait) /\ WF_vars(InterruptSend)

\* The connection that reports its errors on c.errch with one consumer whose
\* handler returns nil or an error and whose acknowledgements can fail, in an
\* application that calls Wait once.  The scheduler lets every task run, and
\* the backend's AckWait timer fires.
NextErr ==
  \/ \E serial \in BOOLEAN : Subscribe("", FALSE, FALSE, serial, "first")
  \/ Publish
  \/ \E n \in Names : Deliver(n)
  \/ \E n \in Names, m \in MsgSeqs : Redeliver(n, m)
  \/ \E n \in Names : MsgHandler(n)
  \/ \E n \in Names, outcome \in {"ok", "err"} : HandlerReturn(n, outcome)
  \/ \E n \in Names : Ack(n)
  \/ \E n \in Names : AckFails(n)
  \/ \E n \in Names : ErrSend(n)
  \/ InterruptSend
  \/ Wait

FairErr ==
  /\ WF_vars(Wait) /\ WF_vars(InterruptSend)
  /\ \A n \in Names :
       /\ WF_vars(MsgHandler(n))
       /\ WF_vars(HandlerReturn(n, "ok") \/ HandlerReturn(n, "err"))
       /\ WF_vars(Ack(n) \/ AckFails(n))
       /\ WF_vars(ErrSend(n))
       /\ \A m \in MsgSeqs : WF_vars(Redeliver(n, m))

SpecErr == InitErrch /\ [][NextErr]_vars /\ FairErr

\* One consumer of either generation whose handler may take longer than
\* AckWait, return an error, or lose its acknowledgement.
SpecSlow == Init /\ [][NextErr]_vars

\* Subscribe calls of one goroutine and a Close call of another on the
\* connection of src/encode.go, with the consumers at work.
NextClose ==
  \/ \E name \in NameArgs : SubscribeMade(name, FALSE)
  \/ SubscribeTrack
  \/ CloseBegin
  \/ CloseRange
  \/ CloseSession
  \/ Publish
  \/ \E n \in Names : Deliver(n)
  \/ \E n \in Names : MsgHandler(n)
  \/ \E n \in Names : HandlerReturn(n, "ok")
  \/ \E n \in Names : Ack(n)
  \/ \E n \in Names : ErrSend(n)

SpecClose == InitErrch /\ [][NextClose]_vars

\* A durable consumer that subscribes, works, closes its subscription and
\* subscribes again, some of its Subscribe calls failing.
NextReset ==
  \/ \E reset \in BOOLEAN, start \in StartPositions :
       Subscribe("", TRUE, reset, FALSE, start)
  \/ \E reset \in BOOLEAN, how \in SubscribeErrors :
       SubscribeFails("", reset, how)
  \/ Publish
  \/ \E n \in Names : Deliver(n)
  \/ \E n \in Names : MsgHandler(n)
  \/ \E n \in Names, outcome \in {"ok", "err"} : HandlerReturn(n, outcome)
  \/ \E n \in Names : Ack(n)
  \/ \E n \in Names : ErrSend(n)
  \/ \E n \in Names : SubClose(n)

SpecReset == Init /\ [][NextReset]_vars

\* Replies that are made, marshalled and unmarshalled by a receiver.
NextReply ==
  \/ \E r \in Replies : NewReply(r)
  \/ MarshalReply
  \/ UnmarshalReply

SpecReply == Init /\ [][NextReply]_vars

----------------------------------------------------------------------------
(* Publishing looked at by itself: the application publishes events with   *)
(* its own or no value in the Client field, and a handler publishes again  *)
(* the events it was given (with their ID set).                            *)

NewEvents == {[Tick EXCEPT !.Client = cl] : cl \in {"", "b"}}

NextPub ==
  \/ \E evt \in NewEvents : PublishEvent(evt)
  \/ \E n \in Names : Republish(n)
  \/ \E serial \in BOOLEAN : Subscribe("", FALSE, FALSE, serial, "first")
  \/ \E n \in Names : Deliver(n)
  \/ \E n \in Names : MsgHandler(n)
  \/ \E n \in Names, outcome \in {"ok", "err"} : HandlerReturn(n, outcome)
  \/ \E n \in Names : Ack(n)
  \/ \E n \in Names : ErrSend(n)
  \/ ConnClose

SpecPub == Init /\ [][NextPub]_vars

\* The same with Publish calls that fail, for one consumer.
NextFail ==
  \/ Publish
  \/ \E how \in Failures : PublishFails(Tick, how)
  \/ Subscribe("", FALSE, FALSE, FALSE, "first")
  \/ \E n \in Names : Deliver(n)
  \/ \E n \in Names : MsgHandler(n)
  \/ \E n \in Names, outcome \in {"ok", "err"} : HandlerReturn(n, outcome)
  \/ \E n \in Names : Ack(n)
  \/ \E n \in Names : ErrSend(n)
  \/ ConnClose

SpecFail == Init /\ [][NextFail]_vars

----------------------------------------------------------------------------
(* The clock example: the application publishes "tick" events without a    *)
(* cause, and the handler of a consumer subscribed with serial = true,     *)
(* durable = false and start position "new" answers every event with the   *)
(* other one, on the stream it is subscribed to.                           *)

NextClock ==
  \/ Subscribe("", FALSE, FALSE, TRUE, "new")
  \/ Publish
  \/ \E n \in Names : Deliver(n)
  \/ \E n \in Names, m \in MsgSeqs : Redeliver(n, m)
  \/ \E n \in Names : MsgHandler(n)
  \/ \E n \in Names : ClockHandle(n)
  \/ \E n \in Names : Ack(n)
  \/ \E n \in Names : ErrSend(n)
  \/ \E n \in Names : SubClose(n)
  \/ ConnClose

SpecClock == Init /\ [][NextClock]_vars

----------------------------------------------------------------------------
(* Envelopes by themselves: the application makes Messages and marshals    *)
(* each any number of times.                                               *)

NextMarshal ==
  \/ \E m \in Messages : NewMessage(m)
  \/ \E now \in Times : MessageMarshal(now)
  \/ UnmarshalMessage

SpecMarshal == Init /\ [][NextMarshal]_vars

(* Data by itself: a sender makes a Data and marshals it, a receiver        *)
(* unmarshals the bytes, sets values, marshals and decodes.                 *)

InitData == Init /\ ver = "errch"

NextData ==
  \/ \E d \in Made : NewData(d)
  \/ \E w \in {"d", "d2"} : MarshalData(w)
  \/ \E fresh \in BOOLEAN, foreign \in BOOLEAN : UnmarshalData(fresh, foreign)
  \/ \E v \in Values \cup {NilValue} : SetData(v)
  \/ \E was \in Targets : DecodeData(was)

SpecData == InitData /\ [][NextData]_vars

(* The registry by itself: one goroutine registers codecs and gets them.   *)

NextCodec ==
  \/ \E name \in CodecNames, codec \in Codecs : Register(name, codec)
  \/ \E name \in GetNames : Get(name)

SpecCodec == InitData /\ [][NextCodec]_vars

(* The registry with two goroutines that register codecs and get them      *)
(* whenever they like, under a built-in name and a name of their own.      *)

RaceNames == {"json", "x"}
RaceCodecs == {"stringCodec", "jsonCodec"}

NextRace ==
  \/ \E g \in Goroutines, name \in RaceNames : GetBegin(g, name)
  \/ \E g \in Goroutines : GetEnd(g)
  \/ \E g \in Goroutines, name \in RaceNames, codec \in RaceCodecs :
       RegisterBegin(g, name, codec)
  \/ \E g \in Goroutines : RegisterEnd(g)

SpecRace == InitData /\ [][NextRace]_vars

----------------------------------------------------------------------------
(* Properties.                                                             *)

\* The unacknowledged messages of the group of subscription n.
Pending(n) == grp[KeyOf(n)].pend

\* The handler of subscription n is running on message m.
Handling(n, m) == sub[n].pc = "handling" /\ sub[n].cur = m

\* C1: a message is acknowledged only by the msg.Ack() of a delivery whose
\* handler was invoked and returned nil; a delivery whose handler returned an
\* error, or whose bytes are no pb.Event, acknowledges nothing.
C1_AckOnlyAfterHandlerSuccess ==
  [][ /\ \A k \in Keys :
           grp'[k] # grp[k] =>
             \A m \in Acked(k)' \ Acked(k) :
               \E n \in Names :
                 KeyOf(n) = k /\ sub[n].pc = "ack" /\ sub[n].cur = m /\ Ack(n)
      /\ \A n \in Names :
           /\ (sub'[n].pc = "ack" /\ sub[n].pc # "ack") => HandlerReturn(n, "ok")
           /\ (sub'[n].pc = "handling" /\ sub[n].pc # "handling") =>
                /\ MsgHandler(n)
                /\ sub'[n].cur = Head(sub[n].inbox)
                /\ log[sub'[n].cur].wf
           /\ sub[n].pc \in {"handling", "ack"} => sub'[n].cur = sub[n].cur
           /\ (sub[n].pc = "handling" /\ HandlerReturn(n, "err")) =>
                (sub'[n].pc # "ack" /\ grp' = grp)
           /\ (sub[n].pc = "idle" /\ sub'[n].inbox # sub[n].inbox /\ MsgHandler(n)
                 /\ ~log[Head(sub[n].inbox)].wf) =>
                (sub'[n].pc \notin {"handling", "ack"} /\ grp' = grp)
    ]_vars

\* A subscription acknowledged the message its handler last returned nil for.
C1_Witness ==
  \E n \in Names :
    /\ sub[n].open /\ sub[n].pc = "idle" /\ sub[n].cur # 0
    /\ sub[n].cur \in Acked(KeyOf(n))

\* The handler of open subscription n last returned an error for message m,
\* which is unacknowledged.  (A handler that returns nil has its message
\* acknowledged while the subscription is open.)
ErrorPending(n, m) ==
  sub[n].open /\ sub[n].pc = "idle" /\ sub[n].cur = m /\ m \in Pending(n)

C3_AsStated ==
  [][ \A n \in Names :
        (MsgHandler(n) /\ sub[n].open /\ sub[n].serial
           /\ sub'[n].pc = "handling" /\ sub[n].cur # 0) =>
          sub'[n].cur >= sub[n].cur ]_vars

\* C4 as stated: an open serial subscription has at most one unacknowledged
\* message, and its handler gets a message only when every earlier message
\* of the subscription is acknowledged.
C4_AsStated ==
  \A n \in Names :
    (sub[n].open /\ sub[n].serial) =>
      /\ Cardinality(Pending(n)) <= 1
      /\ sub[n].pc = "handling" =>
           \A j \in Pending(n) : j >= sub[n].cur

\* Where the next delivery of subscription n starts.
ResumesAt(n) ==
  IF sub[n].inbox # <<>> THEN Head(sub[n].inbox) ELSE grp[KeyOf(n)].next

\* The first message of group k that is not acknowledged.
FirstUnacked(k) ==
  IF grp[k].pend # {}
  THEN CHOOSE m \in grp[k].pend : \A j \in grp[k].pend : m <= j
  ELSE grp[k].next

\* Group k holds a durable offset.
HasOffset(k) == k[2] /\ grp[k] # NoGrp

\* The step makes subscription n.
Subscribes(n) == ~sub[n].open /\ sub'[n].open

\* C5: a durable Subscribe (Reset not set) for a name whose durable group was
\* left by Close resumes at the group's first unacknowledged message and
\* leaves the group's offset as it was, whatever the start position.
C5_DurableResumes ==
  [][ \A name \in NameArgs, serial \in BOOLEAN, start \in StartPositions :
        LET n == ConsumerName(name)
            k == GroupKey(n, TRUE)
        IN (Subscribes(n) /\ HasOffset(k)
              /\ Subscribe(name, TRUE, FALSE, serial, start)) =>
             /\ ResumesAt(n)' = FirstUnacked(k)
             /\ grp'[k] = grp[k] ]_vars

\* A closed durable consumer with acknowledged and unacknowledged messages,
\* whose first unacknowledged message is not the oldest of the stream, can
\* subscribe again with start position "first".
C5_Witness ==
  LET k == GroupKey(ClientId, TRUE)
  IN /\ HasOffset(k) /\ Acked(k) # {} /\ grp[k].pend # {}
     /\ FirstUnacked(k) > 1
     /\ ENABLED Subscribe("", TRUE, FALSE, TRUE, "first")

\* The sequence number a start position stands for.
PositionOf(start) == IF start = "first" THEN 1 ELSE Len(log) + 1

\* C6: Subscribe with Reset for a name that holds a durable offset drops the
\* offset: the new subscription's group starts at the start position with
\* nothing unacknowledged, and no durable offset of the old one is left.
C6_ResetStartsOver ==
  [][ \A name \in NameArgs, durable \in BOOLEAN, serial \in BOOLEAN,
         start \in StartPositions :
        LET n == ConsumerName(name)
            k == GroupKey(n, durable)
        IN (Subscribes(n) /\ HasOffset(GroupKey(n, TRUE))
              /\ Subscribe(name, durable, TRUE, serial, start)) =>
             /\ grp'[k] = [first |-> PositionOf(start), next |-> PositionOf(start),
                           pend |-> {}]
             /\ sub'[n].inbox = <<>>
             /\ ~durable => grp'[GroupKey(n, TRUE)] = NoGrp ]_vars

\* A closed durable consumer whose offset lies behind acknowledged and
\* unacknowledged messages can subscribe with Reset.
C6_Witness ==
  LET k == GroupKey(ClientId, TRUE)
  IN /\ HasOffset(k) /\ Acked(k) # {} /\ grp[k].pend # {}
     /\ grp[k].next <= Len(log)
     /\ ENABLED Subscribe("", TRUE, TRUE, TRUE, "new")

\* C7: Close of a durable subscription ends it and leaves the durable offset
\* as it is; Unsubscribe ends it and removes the offset; and a durable
\* Subscribe that finds no offset starts at the start position.
C7_CloseKeepsUnsubscribeDrops ==
  [][ /\ \A n \in Names :
           LET k == KeyOf(n)
           IN /\ (sub[n].open /\ sub[n].durable /\ SubClose(n)) =>
                   (grp'[k] = grp[k] /\ ~sub'[n].open /\ sub'[n].inbox = <<>>)
              /\ (sub[n].open /\ sub[n].durable /\ SubUnsubscribe(n)) =>
                   (grp'[k] = NoGrp /\ ~sub'[n].open /\ sub'[n].inbox = <<>>)
      /\ \A name \in NameArgs, serial \in BOOLEAN, start \in StartPositions :
           LET n == ConsumerName(name)
               k == GroupKey(n, TRUE)
           IN (Subscribes(n) /\ ~HasOffset(k)
                 /\ Subscribe(name, TRUE, FALSE, serial, start)) =>
                (grp'[k].next = PositionOf(start) /\ grp'[k].pend = {})
    ]_vars

\* An open durable subscription with acknowledged and unacknowledged
\* messages, which Close and Unsubscribe can end.
C7_Witness ==
  \E n \in Names :
    /\ sub[n].open /\ sub[n].durable
    /\ Acked(KeyOf(n)) # {} /\ Pending(n) # {}
    /\ ENABLED SubClose(n) /\ ENABLED SubUnsubscribe(n)

\* C8: a Subscribe that finds no durable offset to resume (a plain
\* subscription, a new durable name, or Reset) starts after the last message
\* published so far with start position "new" and at the oldest message with
\* "first"; one that resumes a durable offset leaves it alone whatever the
\* start position; and the backend sends a subscription the messages from
\* its start on, each once and in the order of the stream.
C8_StartPosition ==
  [][ /\ (\E n \in Names : Subscribes(n)) =>
           \A name \in NameArgs, durable \in BOOLEAN, reset \in BOOLEAN,
              serial \in BOOLEAN, start \in StartPositions :
             LET n == ConsumerName(name)
                 k == GroupKey(n, durable)
             IN Subscribe(name, durable, reset, serial, start) =>
                  IF ~reset /\ HasOffset(k)
                  THEN grp'[k] = grp[k]
                  ELSE /\ grp'[k].pend = {} /\ sub'[n].inbox = <<>>
                       /\ start = "new" =>
                            (grp'[k].first = Len(log) + 1 /\ grp'[k].next = Len(log) + 1)
                       /\ start = "first" =>
                            (grp'[k].first = 1 /\ grp'[k].next = 1)
      /\ \A n \in Names :
           LET k == KeyOf(n)
           IN (grp'[k] # grp[k] /\ Deliver(n)) =>
                /\ sub'[n].inbox = Append(sub[n].inbox, grp[k].next)
                /\ grp'[k].next = grp[k].next + 1
                /\ grp'[k].first = grp[k].first
      /\ \A n \in Names :
           (sub'[n].open /\ sub'[n].inbox # sub[n].inbox) =>
             \A i \in DOMAIN sub'[n].inbox :
               sub'[n].inbox[i] >= grp'[KeyOf(n)'].first
    ]_vars

\* A plain subscription that started at "new" behind a backlog and was sent
\* a message published after it subscribed.
C8_Witness ==
  \E n \in Names :
    /\ sub[n].open /\ ~sub[n].durable
    /\ grp[KeyOf(n)].first > 1
    /\ grp[KeyOf(n)].next > grp[KeyOf(n)].first

\* C9: the step in which a handler panics leaves the connection closed and
\* no subscription of it open, acknowledges nothing and keeps the message of
\* a durable subscription unacknowledged; once the panic has gone on, the
\* connection is closed and no subscription is open.
C9_PanicClosesConnection ==
  /\ [](crashed => (~connOpen /\ \A n \in Names : ~sub[n].open))
  /\ [][ \A n \in Names :
           (crashed' /\ ~crashed /\ HandlerPanic(n)) =>
             /\ ~connOpen' /\ \A n2 \in Names : ~sub'[n2].open
             /\ \A k \in Keys : Acked(k)' \subseteq Acked(k)
             /\ (sub[n].open /\ sub[n].durable) =>
                  grp'[KeyOf(n)].pend = grp[KeyOf(n)].pend ]_vars

\* A handler panicked while the connection's other consumer was in its
\* callback with an unacknowledged message of its durable group.
C9_Witness ==
  /\ crashed /\ ~connOpen
  /\ sub["a"].pc = "panic"
  /\ sub["b"].pc = "handling"
  /\ sub["b"].cur \in grp[GroupKey("b", TRUE)].pend

\* C10 as stated: the handler is invoked only with bytes that are a
\* pb.Event, and never with a message that follows, in the subscription's
\* part of the stream, one that is no pb.Event.
C10_AsStated ==
  \A n \in Names :
    (sub[n].open /\ sub[n].pc = "handling") =>
      /\ log[sub[n].cur].wf
      /\ \A j \in 1..Len(log) :
           (grp[KeyOf(n)].first <= j /\ j < sub[n].cur) => log[j].wf

\* C11 as stated: neither the return of a handler with an error nor what
\* msgHandler does with that error closes or cancels the connection or ends
\* a subscription of it.
C11_AsStated ==
  [][ \A n \in Names :
        ( \/ HandlerReturn(n, "err")
          \/ (sub[n].pc = "errsend" /\ sub[n].err = "handler" /\ ErrSend(n)) ) =>
          /\ connOpen' = connOpen
          /\ ctxDone' = ctxDone
          /\ \A n2 \in Names : sub'[n2].open = sub[n2].open ]_vars

\* The place of the first call of that name in what Close has called, 0 if
\* it is not among the calls.
CallAt(call, arg) ==
  IF \E p \in DOMAIN ops : ops[p] = [call |-> call, arg |-> arg]
  THEN CHOOSE p \in DOMAIN ops :
         /\ ops[p] = [call |-> call, arg |-> arg]
         /\ \A q \in 1..(p - 1) : ops[q] # ops[p]
  ELSE 0

\* C12: every open subscription of the connection that keeps c.subs is in
\* c.subs; and Close has called Close on every element of c.subs before it
\* closed the streaming session, and closed the session before the NATS
\* connection, after which no subscription is open.
C12_CloseOrder ==
  /\ \A n \in Names :
       (ver = "errch" /\ sub[n].open) => \E i \in DOMAIN subs : subs[i] = n
  /\ ~connOpen =>
       /\ CallAt("stan.Close", 0) > 0
       /\ CallAt("stan.Close", 0) < CallAt("nats.Close", 0)
       /\ \A i \in DOMAIN subs :
            /\ CallAt("sub.Close", i) > 0
            /\ CallAt("sub.Close", i) < CallAt("stan.Close", 0)
       /\ \A n \in Names : ~sub[n].open

\* Close has run on a connection that tracked three or more subscriptions of
\* its two consumers, one of them closed and made again before.
C12_Witness ==
  /\ ~connOpen /\ ~crashed /\ Len(subs) >= 3
  /\ \E i, j \in DOMAIN subs : subs[i] # subs[j]
  /\ Len(ops) = Len(subs) + 2

\* C13: Wait has returned only if the connection context is done; the
\* context becomes done only by a signal that handleInterrupt caught, by the
\* cancellation of the context given to Connect, by Close, or by an error
\* that msgHandler reports; and once the context is done Wait returns (unless
\* a handler's panic has ended the process).
C13_WaitReturns ==
  /\ [](waitRes # "none" => ctxDone)
  /\ [][ (ctxDone' /\ ~ctxDone) =>
           \/ InterruptSignal
           \/ CtxCancel
           \/ ConnClose
           \/ \E n \in Names : sub[n].pc = "errsend" /\ ErrSend(n)
           \/ \E n \in Names : sub[n].pc = "handling" /\ HandlerPanic(n) ]_vars
  /\ [][ (waitRes = "none" /\ waitRes' # "none") =>
           (ctxDone /\ errch # <<>> /\ waitRes' = Head(errch)) ]_vars
  /\ ctxDone ~> (waitRes # "none" \/ crashed)

\* Wait returned the error of a handler while the value of handleInterrupt
\* and a second handler's error were in c.errch.
C13_Witness ==
  /\ waitRes = "err" /\ connOpen /\ ~crashed
  /\ Len(errch) = ErrchCap /\ hiDone

\* The last element of a sequence that is not empty.
Last(s) == s[Len(s)]

\* C14: the IDs that Publish has returned differ from one another; the event
\* in the stream for a Publish carries the returned ID; and the event a
\* handler is given carries the ID that the Publish of its message returned.
C14_UniqueIdDelivered ==
  /\ \A i, j \in DOMAIN ret :
       (i # j /\ ret[i].id # 0 /\ ret[j].id # 0) => ret[i].id # ret[j].id
  /\ Len(ret) = Len(log)
  /\ \A i \in DOMAIN log :
       log[i].wf => (ret[i].id # 0 /\ Unmarshal(log[i].data).id = ret[i].id)
  /\ \A n \in Names :
       sub[n].pc = "handling" => EventOf(sub[n].cur).ID = ret[sub[n].cur].id

\* A handler was given the second of three published events.
C14_Witness ==
  /\ Len(log) >= 3
  /\ \E n \in Names :
       sub[n].pc = "handling" /\ sub[n].cur = 2 /\ EventOf(2).ID = ret[2].id

\* C15 as stated: a Publish of an event without an ID returns an ID that no
\* earlier Publish returned, and a Publish of an event whose ID is set sends
\* and returns that ID.
C15_AsStated ==
  [][ \A n \in Names :
        LET evt == EventOf(sub[n].cur)
        IN (sub[n].pc = "handling" /\ Len(log') > Len(log) /\ Republish(n)) =>
             IF evt.ID = 0
             THEN \A i \in DOMAIN ret : ret[i].id # Last(ret').id
             ELSE /\ Last(ret').id = evt.ID
                  /\ Unmarshal(Last(log').data).id = evt.ID ]_vars

\* C16: every event in the stream, and every event a handler is given, has
\* the connection's client identifier in its client field, whatever the
\* Client field of the event given to Publish.
C16_ClientStamped ==
  /\ \A i \in DOMAIN log :
       log[i].wf => Unmarshal(log[i].data).client = ClientId
  /\ \A n \in Names :
       sub[n].pc = "handling" => EventOf(sub[n].cur).Client = ClientId

\* A handler was given an event that was published with another client's
\* name in its Client field.
C16_Witness ==
  \E n \in Names :
    /\ sub[n].pc = "handling"
    /\ ret[sub[n].cur].evt.Client \notin {"", ClientId}
    /\ EventOf(sub[n].cur).Client = ClientId

\* C17: when the clock handler is given an event, the event it publishes
\* has the other type and, as its cause, the ID that Publish returned for the
\* event it was given; and an event with a cause that a handler is given has
\* as cause the ID that Publish returned for an earlier event of the other
\* type.
C17_CauseIsTickId ==
  /\ [][ \A n \in Names :
           (sub[n].pc = "handling" /\ Len(log') > Len(log) /\ ClockHandle(n)) =>
             LET m == sub[n].cur
                 e == Unmarshal(Last(log').data)
             IN /\ e.cause = ret[m].id
                /\ e.cause # 0
                /\ e.type # EventOf(m).Type
                /\ e.type \in {"tick", "tock"} ]_vars
  /\ [](\A n \in Names :
          (sub[n].pc = "handling" /\ EventOf(sub[n].cur).Cause # 0) =>
            \E i \in 1..(sub[n].cur - 1) :
              /\ ret[i].id = EventOf(sub[n].cur).Cause
              /\ EventOf(i).Type # EventOf(sub[n].cur).Type)

\* The handler is given a "tock" whose cause is the ID that Publish returned
\* for a "tick" that the application published without a cause.
C17_Witness ==
  \E n \in Names :
    /\ sub[n].open /\ sub[n].serial /\ ~sub[n].durable
    /\ sub[n].pc = "handling"
    /\ EventOf(sub[n].cur).Type = "tock"
    /\ \E i \in DOMAIN log :
         /\ ret[i].evt = Tick
         /\ ret[i].id = EventOf(sub[n].cur).Cause

C20_MarshalIdStable ==
  [][ \A now \in Times :
        MessageMarshal(now) =>
          /\ env'.ID # 0
          /\ env.ID # 0 => env'.ID = env.ID
          /\ out'.res = "ok" => out'.bytes.id = env'.ID
          /\ (out.res # "none" /\ out'.res = "ok" /\ out.res = "ok") =>
               out'.bytes = out.bytes ]_vars

\* The second envelope that was made without an ID has been marshalled, has
\* the second ID of the generator, and can be marshalled again.
C20_Witness ==
  /\ out.res = "ok" /\ env.ID = nuid /\ out.bytes.id = env.ID
  /\ nuid >= 2
  /\ \E now \in Times : ENABLED MessageMarshal(now)

\* C21: a Marshal of an envelope whose time is zero leaves it with a time that
\* is not zero, a Marshal of an envelope with a time leaves that time as it
\* is, and the bytes of a Marshal carry the time of a time.Now().
C21_MarshalTimeDefault ==
  [][ \A now \in Times :
        MessageMarshal(now) =>
          /\ env'.Time # ZeroTime
          /\ env.Time # ZeroTime => env'.Time = env.Time
          /\ env.Time = ZeroTime => env'.Time = now
          /\ (env.Time = ZeroTime /\ out'.res = "ok") =>
               out'.bytes.time = now ]_vars

\* An envelope made without a time was marshalled and has the time of the
\* Marshal; it can be marshalled again at another time.
C21_Witness ==
  /\ out.res = "ok" /\ env.Time \in Times /\ out.bytes.time = env.Time
  /\ \E now \in Times : now # env.Time /\ ENABLED MessageMarshal(now)


\* C22: a Message that the bytes of a successful Marshal were unmarshalled
\* into has the ID, the type and the time that the marshalled envelope has
\* after the Marshal.
C22_AsStated ==
  rcv # NoMessage =>
    /\ rcv.ID = env.ID
    /\ rcv.Type = env.Type
    /\ rcv.Time = env.Time


\* The receiver's Data is what a new Data is after it unmarshalled the bytes
\* that the Marshal of the sender's Data returned, and the last Decode was a
\* Decode of it into an empty variable of the type of the sender's value.
RoundTrip ==
  /\ dat.d.value # NilValue
  /\ out = DataMarshal(dat.d) /\ out.res = "ok"
  /\ dat.d2 = DataUnmarshal(NoData, out.bytes)
  /\ tgt.err # "none" /\ tgt = DataDecode(dat.d2, tgt.was)
  /\ tgt.was = [t |-> dat.d.value.t, v |-> <<>>]

\* C23: a value that its codec accepts, marshalled in a Data, unmarshalled
\* into a new Data and decoded, is decoded without an error into a value
\* equal to it; the empty string and the empty byte slice are such values.
C23_AsStated == RoundTrip => tgt.err = "" /\ tgt.val = dat.d.value


\* C24: a Decode, whether it returns an error or not, leaves the encoding,
\* the schema and the bytes of the Data as they are, and a Decode after a
\* successful Decode into a variable of the same type succeeds as well and
\* gives the same value.
C24_DecodeKeepsData ==
  [][ \A was \in Targets :
        DecodeData(was) =>
          /\ dat' = dat
          /\ (tgt = DataDecode(dat.d2, tgt.was) /\ tgt.err = ""
                /\ was.t = tgt.was.t) =>
               (tgt'.err = "" /\ tgt'.val = tgt.val) ]_vars

\* A Data with bytes was decoded into a variable that held something else,
\* and can be decoded into another variable.
C24_Witness ==
  /\ tgt.err = "" /\ tgt = DataDecode(dat.d2, tgt.was)
  /\ tgt.was.v # <<>> /\ tgt.val # tgt.was /\ dat.d2.bytes # <<>>
  /\ \E was \in Targets : was # tgt.was /\ ENABLED DecodeData(was)


\* C25: a Decode of a Data without bytes returns "no data to decode", a
\* Decode of a Data with bytes whose encoding has no codec in the registry
\* returns "no codec for" that encoding, and in both cases the variable the
\* Decode was given is as it was.
C25_DecodeErrors ==
  [][ \A was \in Targets :
        DecodeData(was) =>
          /\ dat.d2.bytes = <<>> =>
               (tgt'.err = "no data to decode" /\ tgt'.val = was)
          /\ (dat.d2.bytes # <<>> /\ ~CodecGet(dat.d2.Encoding).ok) =>
               (tgt'.err = "no codec for" /\ tgt'.val = was) ]_vars

\* A Data with the bytes of another program's codec was decoded into a
\* variable with content, and a Data without bytes can be.
C25_Witness ==
  /\ tgt.err = "no codec for" /\ tgt.was.v # <<>> /\ tgt.val = tgt.was
  /\ dat.d2.bytes # <<>> /\ dat.d2.Encoding = "x"
  /\ dat.d.bytes = <<>> /\ dat.d.value # NilValue


\* C26: the Marshal of a Data that has a value and no encoding returns an
\* error and no bytes, and the Marshal of an envelope whose data or meta is
\* such a Data returns that error and no bytes.
C26_NoEncodingFails ==
  [][ \A now \in Times :
        (MessageMarshal(now) /\ (env.Data = "bad" \/ env.Meta = "bad")) =>
          /\ EnvData("bad").value # NilValue /\ EnvData("bad").Encoding = ""
          /\ DataMarshal(EnvData("bad")).res = "err"
          /\ DataMarshal(EnvData("bad")).bytes = <<>>
          /\ out' = DataMarshal(EnvData("bad"))
          /\ out'.err = "no encoding specified" ]_vars

\* The Marshal of an envelope whose data marshals and whose meta has no
\* encoding returned the error.
C26_Witness ==
  /\ out.res = "err" /\ out.err = "no encoding specified" /\ out.bytes = <<>>
  /\ env.Data = "ok" /\ env.Meta = "bad" /\ env.ID # 0


\* C27: a Set stores the value and clears the bytes of the Data and leaves
\* its encoding and schema; the Marshal of a Data with a value and without
\* bytes, as it is after a Set, returns the encoding of the value by the
\* codec, and the Decode of such a Data returns "no data to decode".
C27_SetClearsBytes ==
  [][ /\ \A v \in Values \cup {NilValue} :
           SetData(v) =>
             /\ dat'.d2 = DataOf(dat.d2.Encoding, dat.d2.Schema, v)
             /\ dat'.d = dat.d
      /\ (MarshalData("d2") /\ dat.d2.bytes = <<>> /\ dat.d2.value # NilValue
            /\ out'.res = "ok") =>
           /\ CodecGet(dat.d2.Encoding).ok
           /\ UnmarshalAs(out'.bytes, DataFields).data =
                CodecMarshal(CodecGet(dat.d2.Encoding).c, dat.d2.value).b
      /\ \A was \in Targets :
           (DecodeData(was) /\ dat.d2.bytes = <<>>) =>
             tgt'.err = "no data to decode" ]_vars

\* The receiver unmarshalled the bytes of the sender's value, set another
\* value, marshalled it to other bytes than it received, and Decode returned
\* the error.
C27_Witness ==
  /\ DataMarshal(dat.d).res = "ok" /\ DataMarshal(dat.d).bytes # <<>>
  /\ dat.d2.Encoding = dat.d.Encoding /\ dat.d2.Encoding # ""
  /\ dat.d2.value \notin {NilValue, dat.d.value} /\ dat.d2.bytes = <<>>
  /\ out = DataMarshal(dat.d2) /\ out.res = "ok"
  /\ out.bytes # DataMarshal(dat.d).bytes
  /\ tgt.err = "no data to decode"


\* C28: whatever Set, Unmarshal, Marshal and Decode calls a Data has been
\* through, it does not hold a value and bytes at once.
C28_AsStated ==
  \A w \in {"d", "d2"} : ~(dat[w].value # NilValue /\ dat[w].bytes # <<>>)


\* The names that have a codec.
Registered == {n \in CodecNames : reg.codecs[n] # "none"}

\* C29: a Register puts the codec under the name, in place of the codec that
\* was there, and leaves the other names as they are; a Get changes nothing
\* and returns the codec that is under the name, or not found if there is
\* none; no call takes a name out of the registry; and a Get of a name that
\* nobody registered reports not found.
C29_RegistryLaw ==
  /\ [][ /\ \A n \in CodecNames, c \in Codecs :
              Register(n, c) =>
                /\ Lookup(reg'.codecs, n) = [c |-> c, ok |-> TRUE]
                /\ \A m \in CodecNames \ {n} : reg'.codecs[m] = reg.codecs[m]
         /\ \A n \in GetNames :
              Get(n) =>
                /\ reg'.codecs = reg.codecs
                /\ reg'.got.name = n
                /\ n \in Registered =>
                     reg'.got = [name |-> n, c |-> reg.codecs[n], ok |-> TRUE]
                /\ n \notin Registered => ~reg'.got.ok
         /\ Registered \subseteq Registered' ]_vars
  /\ [](reg.got.name = "y" => ~reg.got.ok)

\* A built-in codec was replaced and a new name registered, and the Get of
\* the built-in name returned the codec that replaced it.
C29_Witness ==
  /\ reg.codecs["json"] = "stringCodec" /\ reg.codecs["x"] = "jsonCodec"
  /\ reg.got = [name |-> "json", c |-> "stringCodec", ok |-> TRUE]

\* C30: no access to the table of the registry runs together with a write of
\* it by another goroutine, and the runtime never stops the process for one.
C30_AsStated ==
  /\ ~reg.fatal
  /\ \A g \in Goroutines : ~reg.acc[g].raced


AckFailed(n, m) ==
  /\ sub[n].open /\ sub[n].pc = "errsend" /\ sub[n].err = "ack"
  /\ sub[n].cur = m /\ m \in Pending(n)

\* The events of the run are used up and the dispatch task of n has nothing
\* left to do: the backend's timer cannot fire again within the bound.
RunOver(n) ==
  Events = MaxEvents /\ sub[n].pc = "idle" /\ sub[n].inbox = <<>>

\* C32: a failed msg.Ack() after the handler returned nil leaves the message
\* unacknowledged, and, unless the subscription is closed (or the run's
\* events are used up), the handler is invoked with the same message again.
C32_AsStated ==
  /\ [][ \A n \in Names : AckFails(n) => Pending(n)' = Pending(n) ]_vars
  /\ \A m \in MsgSeqs :
       LET n == ClientId
       IN AckFailed(n, m) ~> (Handling(n, m) \/ ~sub[n].open \/ RunOver(n))

\* The message that subscription n's handler is running on has been sent
\* again by the backend and waits in the subscription's queue.
ResentWhileHandling(n, m) ==
  /\ Handling(n, m)
  /\ sub[n].inbox # <<>> /\ Head(sub[n].inbox) = m

TriggeredQuietly ==
  ctxDone /\ errch = <<>> /\ waitRes = "none" /\ ~hiDone

\* Termination was triggered by an error of msgHandler, which is the first
\* value on c.errch.
TriggeredByError ==
  ctxDone /\ waitRes = "none" /\ errch # <<>> /\ Head(errch) = "err"

\* The part of C34 about internal errors: the error that triggers the
\* termination is the first value on c.errch, and Wait returns it.
C34_ErrorIsReturned ==
  /\ [][ \A n \in Names :
           (ErrSend(n) /\ ~ctxDone) => (TriggeredByError' /\ errch = <<>>) ]_vars
  /\ TriggeredByError ~> (waitRes = "err" \/ crashed)

\* C34: when an internal error triggers the termination and nothing else
\* came first Wait returns that error, and when a signal, Close or an
\* external cancellation triggers it Wait returns nil.
C34_AsStated ==
  /\ C34_ErrorIsReturned
  /\ TriggeredQuietly ~> (waitRes = "nil" \/ crashed)

\* C35: every invocation of msgHandler comes to its end once the handler has
\* returned: a task that is reporting an error on c.errch, or is about to
\* acknowledge, is idle again later.
C35_AsStated ==
  \A n \in Names :
    (sub[n].pc \in {"ack", "errsend"}) ~> (sub[n].pc = "idle")

\* A Subscribe is about to write c.subs while a Close is about to read it.
Racing == calls.made # "" /\ calls.close = "called"

\* C36: once Close has returned no subscription that Subscribe returned is
\* open, none is open and untracked, and c.subs is never written by Subscribe
\* and read by Close with nothing ordering the two.
C36_AsStated ==
  /\ calls.close = "returned" =>
       \A n \in Names : calls.made # n => ~sub[n].open
  /\ ~Racing /\ ~calls.raced /\ ~calls.fatal

\* The part of C36 about the subscriptions: after Close has returned none is
\* open, tracked or not.
C36_AllClosed ==
  calls.close = "returned" => \A n \in Names : ~sub[n].open

\* C37: a Subscribe call that returns an error leaves the durable offset of
\* the consumer as it was, with Reset set as without.
C37_AsStated ==
  [][ \A name \in NameArgs, reset \in BOOLEAN, how \in SubscribeErrors :
        SubscribeFails(name, reset, how) =>
          grp'[GroupKey(ConsumerName(name), TRUE)]
            = grp[GroupKey(ConsumerName(name), TRUE)] ]_vars

\* The part of C37 that holds: a failing Subscribe without Reset, or one
\* whose resetDurable failed before it unsubscribed, changes no offset.
C37_NoResetNoChange ==
  [][ \A name \in NameArgs, reset \in BOOLEAN, how \in SubscribeErrors :
        (SubscribeFails(name, reset, how) /\ (~reset \/ how = "reset")) =>
          grp' = grp ]_vars

\* C38: a Marshal of an envelope that returns an error, its data or meta not
\* marshalling, leaves the envelope as it was: no ID and no time is assigned.
C38_AsStated ==
  [][ \A now \in Times :
        (MessageMarshal(now) /\ out'.res = "err") =>
          /\ env'.ID = env.ID
          /\ env'.Time = env.Time ]_vars

\* The field p of a Reply points to a Data that has a value or bytes.
HasContent(p) == p.ptr /\ ~(p.d.value = NilValue /\ p.d.bytes = <<>>)

\* The field q of the receiver's Reply is what the field p of the sender's
\* is after the round trip: there exactly when p has content, and then with
\* p's encoding and schema and the bytes p marshals to.
SameField(p, q) ==
  /\ q.ptr <=> HasContent(p)
  /\ HasContent(p) =>
       /\ q.d.Encoding = p.d.Encoding /\ q.d.Schema = p.d.Schema
       /\ q.d.bytes = UnmarshalAs(DataMarshal(p.d).bytes, DataFields).data

\* C39: the Reply that the bytes of a successful Marshal were unmarshalled
\* into has the code, the message, the data and the meta of the marshalled
\* Reply.
C39_AsStated ==
  rep.done =>
    /\ rep.got.Code = rep.r.Code /\ rep.got.Message = rep.r.Message
    /\ SameField(rep.r.Data, rep.got.Data)
    /\ SameField(rep.r.Meta, rep.got.Meta)

\* The part of C39 that holds: code and message are those of the marshalled
\* Reply, and a data with content comes back with its encoding, schema and
\* bytes.
C39_CodeMessageData ==
  rep.done =>
    /\ rep.got.Code = rep.r.Code /\ rep.got.Message = rep.r.Message
    /\ HasContent(rep.r.Data) => SameField(rep.r.Data, rep.got.Data)

\* C40: a new Data that the bytes of a successful Marshal were unmarshalled
\* into marshals to the same bytes again, and a new Data that the bytes of
\* another program were unmarshalled into marshals to those bytes although
\* its encoding has no codec here.
C40_AsStated ==
  [][ MarshalData("d2") =>
        /\ (out = DataMarshal(dat.d) /\ out.res = "ok"
            /\ dat.d2 = DataUnmarshal(NoData, out.bytes)) => out' = out
        /\ dat.d2 = DataUnmarshal(NoData, ForeignData) =>
             (out'.res = "ok" /\ out'.bytes = ForeignData
              /\ ~CodecGet(dat.d2.Encoding).ok) ]_vars

\* The part of C40 that holds: when the marshalled bytes carry a payload
\* that is not empty, the new Data marshals to the same bytes again.
C40_StableWithPayload ==
  [][ (MarshalData("d2") /\ out = DataMarshal(dat.d) /\ out.res = "ok"
       /\ dat.d2 = DataUnmarshal(NoData, out.bytes) /\ dat.d2.bytes # <<>>) =>
        out' = out ]_vars


====
